---- MODULE Spec2Model ----
(***************************************************************************)
(* A model of the news-sentiment / stock-movement helpers:                 *)
(*   src/src/technical.py    indicator columns and daily returns           *)
(*   src/src/correlation.py  alignment of sentiment with returns, Pearson  *)
(*   src/src/sentiment.py    headline scoring and daily aggregation        *)
(*   src/src/data_io.py      CSV loaders                                   *)
(*   src/scripts/run_interim.py  the command-line pipeline (main)          *)
(*                                                                         *)
(* A DataFrame is a record [cols, rows, index]: cols is the sequence of    *)
(* column names, rows the sequence of rows (each a function from column    *)
(* name to cell) and index the sequence of row labels.  A cell is a        *)
(* sequence of length 0 (NaN / NaT / None) or 1 (the value).  A float is   *)
(* an exact fraction [n, d] in lowest terms.  A timestamp is a number of   *)
(* hours since the epoch, in UTC.                                          *)
(***************************************************************************)
EXTENDS Integers, Sequences, FiniteSets, TLC

(***************************************************************************)
(* Bounds of the model.                                                    *)
(***************************************************************************)
MaxDay == 2
MaxPrice == 2
MaxRows == 3
MaxPriceRows == 3
MaxSentRows == 2
MaxTradingDay == 3
MaxNewsRows == 3
MaxIndicatorRows == 3
MaxCalls == 2
MaxRawRows == 2
MaxMainNewsRows == 2
MaxMainPriceRows == 2
MaxSecondFileRows == 1

HoursPerDay == 24

(***************************************************************************)
(* Cells.                                                                  *)
(***************************************************************************)
Null == <<>>

Some(v) == <<v>>

IsNull(c) == c = <<>>

Val(c) == c[1]

Abs(x) == IF x < 0 THEN 0 - x ELSE x

RECURSIVE Gcd(_, _)
Gcd(a, b) == IF b = 0 THEN a ELSE Gcd(b, a % b)

\* The fraction n/d (d > 0) in lowest terms.
Rat(n, d) ==
    LET g == Gcd(Abs(n), d)
    IN  [n |-> n \div g, d |-> d \div g]

RatInt(k) == [n |-> k, d |-> 1]

RatAdd(a, b) == Rat(a.n * b.d + b.n * a.d, a.d * b.d)

RECURSIVE SeqSum(_)
SeqSum(s) == IF s = <<>> THEN 0 ELSE Head(s) + SeqSum(Tail(s))

RECURSIVE SeqProd(_)
SeqProd(s) == IF s = <<>> THEN 1 ELSE Head(s) * SeqProd(Tail(s))

\* The positions 1..n as a sequence.
Idx(n) == [i \in 1..n |-> i]

RECURSIVE Flatten(_)
Flatten(ss) == IF ss = <<>> THEN <<>> ELSE Head(ss) \o Flatten(Tail(ss))

Range(s) == {s[i] : i \in DOMAIN s}

(***************************************************************************)
(* DataFrames.                                                             *)
(***************************************************************************)
RangeIndex(n) == [i \in 1..n |-> i - 1]

Frame(cols, rows) == [cols |-> cols, rows |-> rows, index |-> RangeIndex(Len(rows))]

\* pd.DataFrame(): no columns, no rows.
EmptyFrame == Frame(<<>>, <<>>)

HasCol(df, name) == name \in Range(df.cols)

\* df.empty: no rows or no columns.
IsEmpty(df) == Len(df.rows) = 0 \/ Len(df.cols) = 0

\* data[name] = values: an existing column is overwritten in place, a new
\* one is appended after the others.
SetCol(df, name, values) ==
    [df EXCEPT
        !.cols = IF HasCol(df, name) THEN @ ELSE Append(@, name),
        !.rows = [i \in DOMAIN df.rows |->
                    [c \in DOMAIN df.rows[i] \cup {name} |->
                        IF c = name THEN values[i] ELSE df.rows[i][c]]]]

\* df.drop(columns=names, errors="ignore")
DropCols(df, names) ==
    LET keep == SelectSeq(Idx(Len(df.cols)), LAMBDA i : df.cols[i] \notin names)
    IN  [df EXCEPT
            !.cols = [k \in DOMAIN keep |-> df.cols[keep[k]]],
            !.rows = [i \in DOMAIN df.rows |->
                        [c \in DOMAIN df.rows[i] \ names |-> df.rows[i][c]]]]

\* df.rename(columns={old: new}); nothing happens when old is no column.
RenameCol(df, old, new) ==
    IF ~HasCol(df, old) \/ old = new THEN df
    ELSE [df EXCEPT
            !.cols = [k \in DOMAIN df.cols |-> IF df.cols[k] = old THEN new ELSE df.cols[k]],
            !.rows = [i \in DOMAIN df.rows |->
                        [c \in (DOMAIN df.rows[i] \ {old}) \cup {new} |->
                            IF c = new THEN df.rows[i][old] ELSE df.rows[i][c]]]]

\* The rows at positions pos (in that order), with their labels.
Take(df, pos) ==
    [df EXCEPT
        !.rows = [k \in DOMAIN pos |-> df.rows[pos[k]]],
        !.index = [k \in DOMAIN pos |-> df.index[pos[k]]]]

\* A datetime.date: the day number, tagged.
DateObj(d) == <<"date", d>>

\* An object cell holding text that is no date.
Text(s) == <<"str", s>>

\* A CSV field holding a well-formed ISO timestamp: day d, hour h, at UTC
\* offset off (in hours).
Iso(d, h, off) == <<"iso", d, h, off>>

\* pd.to_datetime(cell, errors="coerce", utc=True): a timestamp is kept, a
\* date is its midnight, an ISO string is parsed and brought to UTC, and
\* anything else (a missing value, other text) is coerced to NaT.
ToDatetimeUTC(cell) ==
    IF Len(cell) = 1 THEN cell
    ELSE IF Len(cell) = 2 /\ cell[1] = "date" THEN Some(cell[2] * HoursPerDay)
    ELSE IF Len(cell) = 4 /\ cell[1] = "iso"
         THEN Some(cell[2] * HoursPerDay + cell[3] - cell[4])
    ELSE Null

\* Series.dt.date of a timestamp cell: the calendar day, NaT staying NaT.
DtDate(ts) == IF IsNull(ts) THEN Null ELSE DateObj(Val(ts) \div HoursPerDay)

\* Mutant of ShiftDays: the shift is applied backward.
ShiftDaysBackward(cell, days) == IF IsNull(cell) THEN Null ELSE Some(Val(cell) - days * HoursPerDay)

\* timestamp + pd.to_timedelta(days, unit="D")
ShiftDays(cell, days) == IF IsNull(cell) THEN Null ELSE Some(Val(cell) + days * HoursPerDay)

(***************************************************************************)
(* technical.compute_daily_returns                                         *)
(***************************************************************************)
\* a sorts no later than b: nulls last.
KeyLeq(a, b) == IsNull(b) \/ (~IsNull(a) /\ Val(a) <= Val(b))

\* df.sort_values(key): every ordering of the rows with nondecreasing key
\* and the nulls last.  The default sort is not stable, so rows with equal
\* keys may come out in any order.
SortOrders(df, key) ==
    LET n == Len(df.rows)
    IN  {p \in Permutations(1..n) :
            \A i, j \in 1..n : i < j => KeyLeq(df.rows[p[i]][key], df.rows[p[j]][key])}

\* Series.pct_change() of a price cell after the previous one; the prices
\* are positive integers.
PctChange(prev, cur) == Some(Rat(Val(cur) - Val(prev), Val(prev)))

\* Mutant of GroupedPctChange: the change is taken over the whole table.
UngroupedPctChange(rows, price_col, ticker_col) ==
    [i \in DOMAIN rows |->
        IF i = 1 THEN Null
        ELSE PctChange(rows[i - 1][price_col], rows[i][price_col])]

\* groupby(ticker_col)[price_col].pct_change(): the previous row of the same
\* group; a row with a null group key belongs to no group.
GroupedPctChange(rows, price_col, ticker_col) ==
    [i \in DOMAIN rows |->
        LET before == {j \in 1..(i - 1) : rows[j][ticker_col] = rows[i][ticker_col]}
        IN  IF IsNull(rows[i][ticker_col]) \/ before = {} THEN Null
            ELSE LET j == CHOOSE k \in before : \A m \in before : m <= k
                 IN  PctChange(rows[j][price_col], rows[i][price_col])]

\* data[price_col].pct_change(): the previous row of the table.
PlainPctChange(rows, price_col) ==
    [i \in DOMAIN rows |->
        IF i = 1 THEN Null
        ELSE PctChange(rows[i - 1][price_col], rows[i][price_col])]

compute_daily_returns(df, price_col, ticker_col) ==
    {LET data == Take(df, p)
     IN  SetCol(data, "daily_return",
                IF HasCol(data, ticker_col)
                THEN GroupedPctChange(data.rows, price_col, ticker_col)
                ELSE PlainPctChange(data.rows, price_col))
     : p \in SortOrders(df, "date")}

(***************************************************************************)
(* Outcomes of a call: a value, or the exception it raised.                *)
(***************************************************************************)
Ok(v) == [err |-> "", val |-> v]

Raise(e) == [err |-> e, val |-> Null]

(***************************************************************************)
(* DataFrame.merge(how="left")                                             *)
(***************************************************************************)
RECURSIVE SuffixCols(_, _, _, _)
\* The columns of df named in overlap, from position k on, get the suffix.
SuffixCols(df, k, overlap, sfx) ==
    IF k > Len(df.cols) THEN df
    ELSE IF df.cols[k] \in overlap
         THEN SuffixCols(RenameCol(df, df.cols[k], df.cols[k] \o sfx), k + 1, overlap, sfx)
         ELSE SuffixCols(df, k + 1, overlap, sfx)

\* Mutant of MergeMatches: every right row matches (a cross join).
MergeMatchesAll(left, right, left_on, right_on, i) == Idx(Len(right.rows))

\* The positions of the right rows whose keys equal those of left row i.  A
\* null key equals a null key: merge matches missing keys with each other.
MergeMatches(left, right, left_on, right_on, i) ==
    SelectSeq(Idx(Len(right.rows)),
              LAMBDA j : \A k \in DOMAIN left_on :
                            left.rows[i][left_on[k]] = right.rows[j][right_on[k]])

\* Mutant of Unmatched: an inner join drops the left row that matches nothing.
UnmatchedDropped(lrow, nullR, label) == <<>>

\* how="left": a left row that matches nothing is kept once, the right's
\* columns null.
Unmatched(lrow, nullR, label) ==
    <<[row |-> lrow @@ nullR, prov |-> [left |-> label, right |-> Null]]>>

\* left.merge(right, left_on, right_on, how="left", suffixes): every left row
\* in order, once per matching right row (in the right's order), or once with
\* the right's columns null when nothing matches.  A key named alike on both
\* sides is one column; any other column present on both sides gets the
\* suffixes.  prov records, per result row, the labels of the left and of the
\* right row it was made of (bookkeeping of the model, not a column).
MergeLeft(left, right, left_on, right_on, sfxL, sfxR) ==
    LET shared  == {left_on[k] : k \in {m \in DOMAIN left_on : left_on[m] = right_on[m]}}
        overlap == (Range(left.cols) \cap Range(right.cols)) \ shared
        L == SuffixCols(left, 1, overlap, sfxL)
        R == DropCols(SuffixCols(right, 1, overlap, sfxR), shared)
        nullR == [c \in Range(R.cols) |-> Null]
        piece(i) ==
            LET m == MergeMatches(left, right, left_on, right_on, i)
            IN  IF m = <<>>
                THEN Unmatched(L.rows[i], nullR, left.index[i])
                ELSE [k \in DOMAIN m |->
                        [row |-> L.rows[i] @@ R.rows[m[k]],
                         prov |-> [left |-> left.index[i], right |-> Some(right.index[m[k]])]]]
        all == Flatten([i \in DOMAIN left.rows |-> piece(i)])
    IN  [cols  |-> L.cols \o R.cols,
         rows  |-> [k \in DOMAIN all |-> all[k].row],
         index |-> RangeIndex(Len(all)),
         prov  |-> [k \in DOMAIN all |-> all[k].prov]]

(***************************************************************************)
(* correlation.align_sentiment_with_returns                                *)
(***************************************************************************)
\* The column of a table as a sequence of cells.
Column(df, name) == [i \in DOMAIN df.rows |-> df.rows[i][name]]

\* Mutant of JoinOnTicker: the ticker is never made a join key.
JoinOnTickerNever(prices, sentiment, price_ticker_col, sentiment_ticker_col) == FALSE

\* The join is keyed on the ticker too when both tables have the column.
JoinOnTicker(prices, sentiment, price_ticker_col, sentiment_ticker_col) ==
    HasCol(prices, price_ticker_col) /\ HasCol(sentiment, sentiment_ticker_col)

\* Lines 38-69, for one outcome prices of compute_daily_returns.
AlignMerge(sentiment_df, prices0, price_ticker_col, sentiment_ticker_col, sentiment_shift_days) ==
    LET prices == SetCol(prices0, "trade_date",
                         [i \in DOMAIN prices0.rows |->
                            DtDate(ToDatetimeUTC(prices0.rows[i]["date"]))])
        shifted == [i \in DOMAIN sentiment_df.rows |->
                        IF sentiment_shift_days # 0
                        THEN ShiftDays(ToDatetimeUTC(sentiment_df.rows[i]["date"]),
                                       sentiment_shift_days)
                        ELSE ToDatetimeUTC(sentiment_df.rows[i]["date"])]
        sentiment0 == SetCol(sentiment_df, "merge_date",
                             [i \in DOMAIN shifted |-> DtDate(shifted[i])])
        both == JoinOnTicker(prices, sentiment0, price_ticker_col, sentiment_ticker_col)
        sentiment == IF both THEN RenameCol(sentiment0, sentiment_ticker_col, price_ticker_col)
                     ELSE sentiment0
        join_left  == IF both THEN <<"trade_date", price_ticker_col>> ELSE <<"trade_date">>
        join_right == IF both THEN <<"merge_date", price_ticker_col>> ELSE <<"merge_date">>
        merged == MergeLeft(prices, sentiment, join_left, join_right, "_price", "_sentiment")
    IN  DropCols(
            RenameCol(
                RenameCol(DropCols(merged, {"merge_date"}), "trade_date", "date"),
                "date_price", "price_timestamp"),
            {"date_sentiment"})

align_sentiment_with_returns(sentiment_df, price_df, price_col, price_ticker_col, sentiment_ticker_col, sentiment_shift_days) ==
    IF ~HasCol(price_df, "date") THEN {Raise("ValueError")}
    ELSE IF ~HasCol(sentiment_df, "date") THEN {Raise("ValueError")}
    ELSE IF ~HasCol(price_df, price_col) THEN {Raise("KeyError")}
    ELSE {Ok(AlignMerge(sentiment_df, prices, price_ticker_col, sentiment_ticker_col,
                        sentiment_shift_days))
          : prices \in compute_daily_returns(price_df, price_col, price_ticker_col)}

(***************************************************************************)
(* correlation.correlation_between_sentiment_and_returns                   *)
(***************************************************************************)
\* df[[a, b]].dropna(): the positions of the rows with both cells non-null.
DropNa(df, a, b) ==
    SelectSeq(Idx(Len(df.rows)),
              LAMBDA i : ~IsNull(df.rows[i][a]) /\ ~IsNull(df.rows[i][b]))

\* The fractions of a sequence brought to one denominator: their numerators.
Scaled(qs) ==
    LET D == SeqProd([i \in DOMAIN qs |-> qs[i].d])
    IN  [i \in DOMAIN qs |-> qs[i].n * (D \div qs[i].d)]

\* Pearson's r of two sequences of fractions of equal length, exactly: null
\* (NaN) when there are fewer than two pairs or one side has no variance,
\* else its sign and its square.
Pearson(xs, ys) ==
    LET n   == Len(xs)
        X   == Scaled(xs)
        Y   == Scaled(ys)
        sx  == SeqSum(X)
        sy  == SeqSum(Y)
        sxy == SeqSum([i \in DOMAIN X |-> X[i] * Y[i]])
        sxx == SeqSum([i \in DOMAIN X |-> X[i] * X[i]])
        syy == SeqSum([i \in DOMAIN Y |-> Y[i] * Y[i]])
        cov == n * sxy - sx * sy
        vx  == n * sxx - sx * sx
        vy  == n * syy - sy * sy
    IN  IF n < 2 \/ vx = 0 \/ vy = 0 THEN Null
        ELSE Some([sign |-> IF cov > 0 THEN 1 ELSE IF cov < 0 THEN 0 - 1 ELSE 0,
                   sq   |-> Rat(cov * cov, vx * vy)])

\* Mutant of correlation_between_sentiment_and_returns: a coefficient of 0
\* instead of NaN when fewer than two rows have both values.
correlation_zero_for_few_pairs(df, sentiment_col, return_col) ==
    LET clean == DropNa(df, sentiment_col, return_col)
    IN  IF Len(clean) < 2 THEN Some([sign |-> 0, sq |-> RatInt(0)])
        ELSE Pearson([k \in DOMAIN clean |-> Val(df.rows[clean[k]][sentiment_col])],
                     [k \in DOMAIN clean |-> Val(df.rows[clean[k]][return_col])])

correlation_between_sentiment_and_returns(df, sentiment_col, return_col) ==
    LET clean == DropNa(df, sentiment_col, return_col)
    IN  IF clean = <<>> THEN Null
        ELSE Pearson([k \in DOMAIN clean |-> Val(df.rows[clean[k]][sentiment_col])],
                     [k \in DOMAIN clean |-> Val(df.rows[clean[k]][return_col])])

(***************************************************************************)
(* correlation.correlations_by_ticker                                      *)
(***************************************************************************)
\* The ticker symbols of the model, in sorted order.
Tickers == <<"AAA", "BBB">>

\* Every text a ticker column can hold, in sorted order: the ticker symbols,
\* the text of a missing stock and the label of a single price file.
Symbols == <<"AAA", "BBB", "NAN", "SAMPLE">>

\* Mutant of Groups: the single group "ALL" whatever the columns.
GroupsAllOnly(aligned, price_ticker_col) == <<[ticker |-> "ALL", group |-> aligned]>>

\* aligned.groupby(ticker_col): one group per ticker present, in sorted
\* order, each with its rows in order; else the single group "ALL".
Groups(aligned, price_ticker_col) ==
    IF HasCol(aligned, price_ticker_col)
    THEN LET present == SelectSeq(Symbols,
                            LAMBDA t : \E i \in DOMAIN aligned.rows :
                                          aligned.rows[i][price_ticker_col] = Some(t))
         IN  [g \in DOMAIN present |->
                [ticker |-> present[g],
                 group  |-> Take(aligned,
                                 SelectSeq(Idx(Len(aligned.rows)),
                                           LAMBDA i : aligned.rows[i][price_ticker_col]
                                                        = Some(present[g])))]]
    ELSE <<[ticker |-> "ALL", group |-> aligned]>>

\* Mutant of ValidPairs: the rows are counted without dropping the nulls.
ValidPairsAll(group, metric) == Len(group.rows)

\* len(group[[metric, "daily_return"]].dropna())
ValidPairs(group, metric) == Len(DropNa(group, metric, "daily_return"))

\* Lines 114-136, for one outcome aligned of align_sentiment_with_returns.
CorrelationRows(aligned, sentiment_columns, price_ticker_col) ==
    IF IsEmpty(aligned)
    THEN Frame(<<"ticker", "sentiment_metric", "correlation", "pair_count">>, <<>>)
    ELSE LET grouped == Groups(aligned, price_ticker_col)
             metrics == SelectSeq(sentiment_columns, LAMBDA m : HasCol(aligned, m))
             rows == Flatten([g \in DOMAIN grouped |->
                        [k \in DOMAIN metrics |->
                            [ticker |-> Some(grouped[g].ticker),
                             sentiment_metric |-> Some(metrics[k]),
                             correlation |->
                                correlation_between_sentiment_and_returns(
                                    grouped[g].group, metrics[k], "daily_return"),
                             pair_count |-> Some(ValidPairs(grouped[g].group, metrics[k]))]]])
         IN  IF rows = <<>> THEN EmptyFrame
             ELSE Frame(<<"ticker", "sentiment_metric", "correlation", "pair_count">>, rows)

\* Every outcome [err, val, aligned]: aligned is the table the rows were
\* computed from (null when the alignment raised).
correlations_by_ticker(sentiment_df, price_df, sentiment_columns, price_col, price_ticker_col, sentiment_ticker_col, sentiment_shift_days) ==
    {IF a.err # "" THEN [err |-> a.err, val |-> Null, aligned |-> Null]
     ELSE [err |-> "",
           val |-> CorrelationRows(a.val, sentiment_columns, price_ticker_col),
           aligned |-> a.val]
     : a \in align_sentiment_with_returns(sentiment_df, price_df, price_col,
                 price_ticker_col, sentiment_ticker_col, sentiment_shift_days)}

(***************************************************************************)
(* sentiment.compute_headline_sentiment                                    *)
(***************************************************************************)
\* TextBlob(text).sentiment of the headlines of the model: polarity and
\* subjectivity of "good", "bad" and of text without sentiment words.
TextBlobSentiment(text) ==
    IF text = "good" THEN [polarity |-> Rat(7, 10), subjectivity |-> Rat(6, 10)]
    ELSE IF text = "bad" THEN [polarity |-> Rat(0 - 7, 10), subjectivity |-> Rat(2, 3)]
    ELSE [polarity |-> RatInt(0), subjectivity |-> RatInt(0)]

\* Mutant of ScoredEmpty: the branch for an empty table adds no column.
ScoredEmptyNoColumns(df) == df

\* Lines 26-29: the empty table gets the two columns, empty.
ScoredEmpty(df) == SetCol(SetCol(df, "polarity", <<>>), "subjectivity", <<>>)

compute_headline_sentiment(df, text_col) ==
    IF IsEmpty(df) THEN Ok(ScoredEmpty(df))
    ELSE IF ~HasCol(df, text_col) THEN Raise("KeyError")
    ELSE Ok(SetCol(SetCol(df, "polarity",
                          [i \in DOMAIN df.rows |->
                              Some(TextBlobSentiment(Val(df.rows[i][text_col])).polarity)]),
                   "subjectivity",
                   [i \in DOMAIN df.rows |->
                       Some(TextBlobSentiment(Val(df.rows[i][text_col])).subjectivity)]))

(***************************************************************************)
(* sentiment.aggregate_daily_sentiment                                     *)
(***************************************************************************)
\* [f"avg_{col}" for col in columns]
AvgNames(columns) == [k \in DOMAIN columns |-> "avg_" \o columns[k]]

\* Lines 72-74: the columns of the result for an empty table.
EmptyAggregate(stock_col, columns) == Frame(<<"date", stock_col>> \o AvgNames(columns), <<>>)

RECURSIVE RatSum(_)
RatSum(qs) == IF qs = <<>> THEN RatInt(0) ELSE RatAdd(Head(qs), RatSum(Tail(qs)))

\* Mutant of Mean: the total of the non-null cells instead of their mean.
Total(cells) ==
    LET present == SelectSeq(cells, LAMBDA c : ~IsNull(c))
    IN  IF present = <<>> THEN Null
        ELSE Some(RatSum([k \in DOMAIN present |-> Val(present[k])]))

\* Series.mean(): the mean of the non-null cells, null when there is none.
Mean(cells) ==
    LET present == SelectSeq(cells, LAMBDA c : ~IsNull(c))
        total   == RatSum([k \in DOMAIN present |-> Val(present[k])])
    IN  IF present = <<>> THEN Null
        ELSE Some(Rat(total.n, total.d * Len(present)))

\* The group keys of working.groupby(group_cols), in sorted order: the days,
\* or the (day, stock) pairs, that occur; a row with a null key is in no group.
DayKeys(days) ==
    LET present == {days[i][2] : i \in {j \in DOMAIN days : ~IsNull(days[j])}}
        lo == CHOOSE d \in present : \A e \in present : d <= e
        hi == CHOOSE d \in present : \A e \in present : e <= d
    IN  IF present = {} THEN <<>>
        ELSE SelectSeq([k \in 1..(hi - lo + 1) |-> lo + k - 1], LAMBDA d : d \in present)

GroupKeys(df, days, stock_col) ==
    IF HasCol(df, stock_col)
    THEN Flatten([k \in DOMAIN DayKeys(days) |->
            LET d == DayKeys(days)[k]
                stocks == SelectSeq(Symbols,
                             LAMBDA t : \E i \in DOMAIN df.rows :
                                           days[i] = DateObj(d) /\ df.rows[i][stock_col] = Some(t))
            IN  [j \in DOMAIN stocks |-> [day |-> d, stock |-> Some(stocks[j])]]])
    ELSE [k \in DOMAIN DayKeys(days) |-> [day |-> DayKeys(days)[k], stock |-> Null]]

aggregate_daily_sentiment(df, date_col, stock_col, columns) ==
    IF IsEmpty(df) THEN Ok(EmptyAggregate(stock_col, columns))
    ELSE IF ~HasCol(df, date_col) THEN Raise("KeyError")
    ELSE IF \E k \in DOMAIN columns : ~HasCol(df, columns[k]) THEN Raise("KeyError")
    ELSE LET days   == [i \in DOMAIN df.rows |-> DtDate(ToDatetimeUTC(df.rows[i][date_col]))]
             byStock == HasCol(df, stock_col)
             keys   == GroupKeys(df, days, stock_col)
             members(key) ==
                SelectSeq(Idx(Len(df.rows)),
                          LAMBDA i : /\ days[i] = DateObj(key.day)
                                     /\ byStock => df.rows[i][stock_col] = key.stock)
             avgs(key) ==
                [c \in Range(AvgNames(columns)) |->
                    LET k == CHOOSE j \in DOMAIN columns : AvgNames(columns)[j] = c
                    IN  Mean([m \in DOMAIN members(key) |-> df.rows[members(key)[m]][columns[k]]])]
             keyCells(key) ==
                IF byStock
                THEN [c \in {"date", stock_col} |->
                        IF c = "date" THEN DateObj(key.day) ELSE key.stock]
                ELSE [c \in {"date"} |-> DateObj(key.day)]
         IN  Ok(Frame((IF byStock THEN <<"date", stock_col>> ELSE <<"date">>) \o AvgNames(columns),
                      [g \in DOMAIN keys |-> keyCells(keys[g]) @@ avgs(keys[g])]))

(***************************************************************************)
(* technical: the indicator functions.  Tables are objects: the heap maps  *)
(* a reference (a position) to the table it denotes, so that a function    *)
(* writing through its argument is told from one writing to a copy.        *)
(***************************************************************************)
\* Mutant of Copy: no copy is made, data is the caller's own table.
CopyAlias(heap, df) == [heap |-> heap, ref |-> df]

\* data = df.copy(): a new table with the cells of df.
Copy(heap, df) == [heap |-> Append(heap, heap[df]), ref |-> Len(heap) + 1]

\* data[name] = values
Assign(h, data, name, values) == [h EXCEPT ![data] = SetCol(@, name, values)]

\* data[price_col].rolling(window=window, min_periods=1).mean(): the mean of
\* the non-null prices among the last `window` rows up to each row.
RollingMean(df, price_col, window) ==
    [i \in DOMAIN df.rows |->
        LET from   == IF i > window THEN i - window + 1 ELSE 1
            cells  == [k \in 1..(i - from + 1) |-> df.rows[from + k - 1][price_col]]
            present == SelectSeq(cells, LAMBDA c : ~IsNull(c))
        IN  IF present = <<>> THEN Null
            ELSE Some(Rat(SeqSum([k \in DOMAIN present |-> Val(present[k])]), Len(present)))]

\* The value an indicator other than the moving average takes at row i: a
\* function of the indicator, its window and the prices up to that row,
\* left uninterpreted.
Indicator(name, window, df, price_col) ==
    [i \in DOMAIN df.rows |->
        Some([indicator |-> name, window |-> window,
              prices |-> [k \in 1..i |-> df.rows[k][price_col]]])]

\* returns.rolling(window=window).std(): null until `window` returns exist,
\* the first row having no return.
RollingStdOfReturns(name, window, df, price_col) ==
    [i \in DOMAIN df.rows |->
        IF i <= window THEN Null ELSE Indicator(name, window, df, price_col)[i]]

add_moving_average(heap, df, window, price_col) ==
    LET data == Copy(heap, df)
    IN  [heap |-> Assign(data.heap, data.ref, "ma_" \o ToString(window),
                         RollingMean(data.heap[data.ref], price_col, window)),
         ref |-> data.ref]

add_rsi(heap, df, window, price_col) ==
    LET data == Copy(heap, df)
    IN  [heap |-> Assign(data.heap, data.ref, "rsi_" \o ToString(window),
                         Indicator("rsi", window, data.heap[data.ref], price_col)),
         ref |-> data.ref]

add_macd(heap, df, price_col) ==
    LET data == Copy(heap, df)
        src  == data.heap[data.ref]
        h1   == Assign(data.heap, data.ref, "macd", Indicator("macd", 0, src, price_col))
        h2   == Assign(h1, data.ref, "macd_signal", Indicator("macd_signal", 0, src, price_col))
    IN  [heap |-> Assign(h2, data.ref, "macd_hist", Indicator("macd_hist", 0, src, price_col)),
         ref |-> data.ref]

\* ta tells whether the optional ta library is installed: with it the
\* columns are assigned as high, low, mavg, without it as mavg, high, low.
add_bollinger_bands(heap, df, price_col, window, ta) ==
    LET data  == Copy(heap, df)
        src   == data.heap[data.ref]
        names == IF ta THEN <<"bb_high", "bb_low", "bb_mavg">>
                       ELSE <<"bb_mavg", "bb_high", "bb_low">>
        col(k) == names[k] \o "_" \o ToString(window)
        h1    == Assign(data.heap, data.ref, col(1), Indicator(names[1], window, src, price_col))
        h2    == Assign(h1, data.ref, col(2), Indicator(names[2], window, src, price_col))
    IN  [heap |-> Assign(h2, data.ref, col(3), Indicator(names[3], window, src, price_col)),
         ref |-> data.ref]

add_volatility(heap, df, price_col, window) ==
    LET data == Copy(heap, df)
    IN  [heap |-> Assign(data.heap, data.ref, "volatility_" \o ToString(window),
                         RollingStdOfReturns("volatility", window, data.heap[data.ref],
                                             price_col)),
         ref |-> data.ref]

(***************************************************************************)
(* data_io: the loaders.  A CSV file is the table pd.read_csv makes of it: *)
(* text cells, a missing field null.                                       *)
(***************************************************************************)
\* str.upper().strip() and str.lower() of the names the model's files use.
UpperStrip(s) ==
    CASE s \in {"aaa", " aaa", "AAA"} -> "AAA"
      [] s \in {"bbb", "BBB"} -> "BBB"
      [] s = "sample" -> "SAMPLE"
      [] OTHER -> s

\* str.upper(), which keeps the blanks.
Upper(s) ==
    CASE s \in {"aaa", "AAA"} -> "AAA"
      [] s = " aaa" -> " AAA"
      [] s \in {"bbb", "BBB"} -> "BBB"
      [] s = "sample" -> "SAMPLE"
      [] OTHER -> s

Lower(s) ==
    CASE s = "Date" -> "date"
      [] s = "Open" -> "open"
      [] s = "High" -> "high"
      [] s = "Low" -> "low"
      [] s = "Close" -> "close"
      [] s = "Volume" -> "volume"
      [] OTHER -> s

\* df.reset_index(drop=True)
ResetIndex(df) == [df EXCEPT !.index = RangeIndex(Len(df.rows))]

\* df[mask]: the rows whose entry of the mask is true, in their order.
Where(df, mask) == Take(df, SelectSeq(Idx(Len(df.rows)), LAMBDA i : mask[i]))

\* Mutant of ParseDates: a row whose date does not parse is dropped.
ParseDatesDropping(df, col) ==
    LET kept == Take(df, SelectSeq(Idx(Len(df.rows)),
                                   LAMBDA i : ~IsNull(ToDatetimeUTC(df.rows[i][col]))))
    IN  SetCol(kept, col, [i \in DOMAIN kept.rows |-> ToDatetimeUTC(kept.rows[i][col])])

\* df[col] = pd.to_datetime(df[col], errors="coerce", utc=True)
ParseDates(df, col) == SetCol(df, col, [i \in DOMAIN df.rows |-> ToDatetimeUTC(df.rows[i][col])])

\* df[col] = df[col].fillna(value)
FillNa(df, col, value) ==
    SetCol(df, col, [i \in DOMAIN df.rows |->
                        IF IsNull(df.rows[i][col]) THEN Some(value) ELSE df.rows[i][col]])

\* df["stock"].astype(str).str.upper().str.strip(): a missing stock is the
\* text "nan", upper-cased.
NormalizeStock(df) ==
    SetCol(df, "stock", [i \in DOMAIN df.rows |->
                            IF IsNull(df.rows[i]["stock"]) THEN Some("NAN")
                            ELSE Some(UpperStrip(Val(df.rows[i]["stock"])))])

\* Lines 29-37: the table read, cleaned and restricted to the tickers; no
\* tickers, or none given (None), is no restriction.
NewsCleaned(csv, tickers) ==
    LET df0 == DropCols(csv, {"Unnamed: 0"})
        df1 == IF HasCol(df0, "date") THEN ParseDates(df0, "date") ELSE df0
        df2 == FillNa(FillNa(df1, "headline", ""), "publisher", "unknown")
        df3 == IF HasCol(df2, "stock") THEN NormalizeStock(df2) ELSE df2
        ticker_set == {Upper(t) : t \in tickers}
    IN  IF HasCol(df3, "stock") /\ tickers # {}
        THEN Where(df3, [i \in DOMAIN df3.rows |-> Val(df3.rows[i]["stock"]) \in ticker_set])
        ELSE df3

\* Mutant of NewsBetween: the bounds themselves are excluded.
NewsBetweenExclusive(df, start, end) ==
    LET from == IF IsNull(start) THEN df
                ELSE Where(df, [i \in DOMAIN df.rows |->
                                   /\ ~IsNull(df.rows[i]["date"])
                                   /\ Val(df.rows[i]["date"]) > Val(start)])
    IN  IF IsNull(end) THEN from
        ELSE Where(from, [i \in DOMAIN from.rows |->
                             /\ ~IsNull(from.rows[i]["date"])
                             /\ Val(from.rows[i]["date"]) < Val(end)])

\* Lines 39-42: a bound that is given (not None) keeps the rows on its side
\* of it; a comparison with NaT is false.
NewsBetween(df, start, end) ==
    LET from == IF IsNull(start) THEN df
                ELSE Where(df, [i \in DOMAIN df.rows |->
                                   /\ ~IsNull(df.rows[i]["date"])
                                   /\ Val(df.rows[i]["date"]) >= Val(start)])
    IN  IF IsNull(end) THEN from
        ELSE Where(from, [i \in DOMAIN from.rows |->
                             /\ ~IsNull(from.rows[i]["date"])
                             /\ Val(from.rows[i]["date"]) <= Val(end)])

load_news_data(csv, tickers, start, end) ==
    IF ~HasCol(csv, "headline") \/ ~HasCol(csv, "publisher") THEN Raise("KeyError")
    ELSE IF ~HasCol(csv, "date") /\ (~IsNull(start) \/ ~IsNull(end)) THEN Raise("KeyError")
    ELSE Ok(ResetIndex(NewsBetween(NewsCleaned(csv, tickers), start, end)))

price_cols == <<"open", "high", "low", "close", "volume">>

\* df.columns = [c.lower() for c in df.columns]
LowerColumns(df) ==
    [df EXCEPT
        !.cols = [k \in DOMAIN df.cols |-> Lower(df.cols[k])],
        !.rows = [i \in DOMAIN df.rows |->
                    [c \in {Lower(x) : x \in Range(df.cols)} |->
                        df.rows[i][CHOOSE x \in Range(df.cols) : Lower(x) = c]]]]

\* Every outcome of load_stock_data: rows with equal dates may come out of
\* the sort in any order.
load_stock_data(csv) ==
    LET date_col == IF HasCol(csv, "date") THEN "date" ELSE "Date"
        df == LowerColumns(RenameCol(ParseDates(csv, date_col), date_col, "date"))
    IN  IF ~HasCol(csv, date_col) THEN {Raise("KeyError")}
        ELSE IF \E k \in DOMAIN price_cols : ~HasCol(df, price_cols[k]) THEN {Raise("ValueError")}
        ELSE {Ok(ResetIndex(Take(df, p))) : p \in SortOrders(df, "date")}

\* data[name] = value, the same in every row.
SetConst(df, name, value) == SetCol(df, name, [i \in DOMAIN df.rows |-> Some(value)])

RECURSIVE Distinct(_)
Distinct(names) ==
    IF names = <<>> THEN <<>>
    ELSE <<Head(names)>> \o SelectSeq(Distinct(Tail(names)), LAMBDA c : c # Head(names))

\* pd.concat(frames, ignore_index=True): the rows one frame after the other,
\* the columns in the order they first occur, a cell a frame lacks null.
Concat(frames) ==
    LET cols == Distinct(Flatten([k \in DOMAIN frames |-> frames[k].cols]))
    IN  Frame(cols,
              Flatten([k \in DOMAIN frames |->
                  [i \in DOMAIN frames[k].rows |->
                      [c \in Range(cols) |->
                          IF HasCol(frames[k], c) THEN frames[k].rows[i][c] ELSE Null]]]))

\* The loop of load_stock_directory over the selected files (each a stem and
\* a table), in name order: every outcome, the frames loaded or the first
\* error.
RECURSIVE LoadFrames(_)
LoadFrames(csv_files) ==
    IF csv_files = <<>> THEN {Ok(<<>>)}
    ELSE {IF frame.err # "" THEN Raise(frame.err)
          ELSE IF rest.err # "" THEN Raise(rest.err)
          ELSE Ok(<<SetConst(frame.val, "ticker", UpperStrip(Head(csv_files).stem))>> \o rest.val)
          : frame \in load_stock_data(Head(csv_files).table),
            rest \in LoadFrames(Tail(csv_files))}

load_stock_directory(directory, tickers) ==
    LET selected == {UpperStrip(t) : t \in tickers}
        csv_files == SelectSeq(directory,
                         LAMBDA f : selected = {} \/ UpperStrip(f.stem) \in selected)
    IN  {IF data_frames.err # "" THEN Raise(data_frames.err)
         ELSE IF data_frames.val = <<>> THEN Raise("FileNotFoundError")
         ELSE Ok(Concat(data_frames.val))
         : data_frames \in LoadFrames(csv_files)}

(***************************************************************************)
(* sentiment.compute_vader_sentiment                                       *)
(***************************************************************************)
\* analyzer.polarity_scores(text) of the headlines of the model, in the
\* order of its keys.
VaderKeys == <<"neg", "neu", "pos", "compound">>

PolarityScores(text) ==
    IF text = "good"
    THEN [neg |-> RatInt(0), neu |-> RatInt(0), pos |-> RatInt(1), compound |-> Rat(4404, 10000)]
    ELSE IF text = "bad"
    THEN [neg |-> RatInt(1), neu |-> RatInt(0), pos |-> RatInt(0), compound |-> Rat(0 - 5423, 10000)]
    ELSE [neg |-> RatInt(0), neu |-> RatInt(0), pos |-> RatInt(0), compound |-> RatInt(0)]

RECURSIVE SetScores(_, _, _, _)
SetScores(df, text_col, prefix, keys) ==
    IF keys = <<>> THEN df
    ELSE SetScores(SetCol(df, prefix \o "_" \o Head(keys),
                          [i \in DOMAIN df.rows |->
                              Some(PolarityScores(Val(df.rows[i][text_col]))[Head(keys)])]),
                   text_col, prefix, Tail(keys))

\* A table without rows has no scores, so vader_df has no columns and none
\* is assigned.
compute_vader_sentiment(df, text_col, prefix) ==
    IF ~HasCol(df, text_col) THEN Raise("KeyError")
    ELSE IF Len(df.rows) = 0 THEN Ok(df)
    ELSE Ok(SetScores(df, text_col, prefix, VaderKeys))

(***************************************************************************)
(* scripts/run_interim.py                                                  *)
(***************************************************************************)
\* parse_args: the defaults of the indicator windows.
ma_windows == <<5, 20>>

rsi_window == 14

boll_window == 20

vol_window == 20

\* args.prices is the position of the single file in the
\* directory, 0 for None.  Every outcome, the table and the tickers loaded.
_load_prices(args, directory) ==
    IF args.prices # 0
    THEN LET ticker_label == UpperStrip(args.single_ticker_label)
         IN  {IF df.err # "" THEN Raise(df.err)
              ELSE Ok([df |-> SetConst(df.val, "ticker", ticker_label), tickers |-> {ticker_label}])
              : df \in load_stock_data(directory[args.prices].table)}
    ELSE LET tickers == {UpperStrip(t) : t \in args.tickers}
         IN  {IF df.err # "" THEN Raise(df.err)
              ELSE Ok([df |-> df.val, tickers |-> tickers])
              : df \in load_stock_directory(directory, tickers)}

\* technical.apply_pynance_bollinger, pynance telling whether PyNance is
\* installed: without it ImportError, with it three columns.
apply_pynance_bollinger(heap, df, price_col, window, pynance) ==
    IF ~pynance THEN [err |-> "ImportError", heap |-> heap, ref |-> df]
    ELSE LET out == Copy(heap, df)
             src == heap[df]
             w   == ToString(window)
             h1  == Assign(out.heap, out.ref, "pn_boll_upper_" \o w,
                           Indicator("pn_boll_upper", window, src, price_col))
             h2  == Assign(h1, out.ref, "pn_boll_lower_" \o w,
                           Indicator("pn_boll_lower", window, src, price_col))
         IN  [err |-> "",
              heap |-> Assign(h2, out.ref, "pn_sma_" \o w,
                              Indicator("pn_sma", window, src, price_col)),
              ref |-> out.ref]

RECURSIVE MovingAverages(_, _)
MovingAverages(ordered, windows) ==
    IF windows = <<>> THEN ordered
    ELSE MovingAverages(add_moving_average(ordered.heap, ordered.ref, Head(windows), "close"),
                        Tail(windows))

\* Every outcome, one per order the sort can give.
_apply_indicator_suite(df, enable_pynance, env) ==
    {LET ordered == [heap |-> <<Take(df, p)>>, ref |-> 1]
         ma   == MovingAverages(ordered, ma_windows)
         rsi  == add_rsi(ma.heap, ma.ref, rsi_window, "close")
         macd == add_macd(rsi.heap, rsi.ref, "close")
         boll == add_bollinger_bands(macd.heap, macd.ref, "close", boll_window, env.ta)
         vol  == add_volatility(boll.heap, boll.ref, "close", vol_window)
         pn   == apply_pynance_bollinger(vol.heap, vol.ref, "close", boll_window, env.pynance)
     IN  IF enable_pynance /\ pn.err = "" THEN pn.heap[pn.ref] ELSE vol.heap[vol.ref]
     : p \in SortOrders(df, "date")}

\* Lines 186-198: the enriched frames of the groups, every outcome.
RECURSIVE EnrichedFrames(_, _, _)
EnrichedFrames(groups, enable_pynance, env) ==
    IF groups = <<>> THEN {<<>>}
    ELSE {<<SetConst(enriched, "ticker", Head(groups).ticker)>> \o rest
          : enriched \in _apply_indicator_suite(Head(groups).group, enable_pynance, env),
            rest \in EnrichedFrames(Tail(groups), enable_pynance, env)}

\* Line 200
IndicatorDf(enriched_frames) ==
    IF enriched_frames = <<>> THEN EmptyFrame ELSE Concat(enriched_frames)

\* Lines 208-211: the correlations that are numbers, and None or their mean
\* (kept as the values it is the mean of).
OverallCorr(correlation_df) ==
    LET corr_values ==
            IF IsEmpty(correlation_df) THEN <<>>
            ELSE SelectSeq([i \in DOMAIN correlation_df.rows |->
                               correlation_df.rows[i]["correlation"]],
                           LAMBDA c : ~IsNull(c))
    IN  IF corr_values = <<>> THEN Null ELSE Some([mean_of |-> corr_values])

_records(df) == IF IsEmpty(df) THEN <<>> ELSE df.rows

\* The columns of the news table the report reads.
ReportColumns == {"headline", "publisher", "url", "date"}

(***************************************************************************)
(* The state: the tables a caller holds and the outcome of its last call.  *)
(***************************************************************************)
VARIABLES price_df, sentiment_df, news_df, heap, files, run, result

vars == <<price_df, sentiment_df, news_df, heap, files, run, result>>

\* No file is read and main does not run.
NoFiles == [news |-> EmptyFrame, prices |-> <<>>]

NoRun == [pc |-> "off"]

\* The sequences over S of length at most n.
SeqsUpTo(S, n) == UNION {[1..k -> S] : k \in 0..n}

\* Midnight of day d, in UTC.
Midnight(d) == Some(d * HoursPerDay)

\* Price timestamps are midnights of the days 1..MaxDay, or NaT.
PriceDates == {Null} \cup {Midnight(d) : d \in 1..MaxDay}

\* Sentiment timestamps are late in the day (23:00), or NaT.
SentimentDates == {Null} \cup {Some(d * HoursPerDay + 23) : d \in 1..MaxDay}

Closes == {Some(c) : c \in 1..MaxPrice}

TickerCells == {Some(Tickers[i]) : i \in DOMAIN Tickers}

Polarities == {Some(RatInt(0 - 1)), Some(RatInt(1))}

ShiftChoices == {0, 1}

PriceSchemas == {<<"date", "close", "ticker">>, <<"date", "close">>}

SentimentSchemas == {<<"date", "stock", "avg_polarity">>, <<"date", "avg_polarity">>}

PriceRows(cols) ==
    IF "ticker" \in Range(cols)
    THEN [date : PriceDates, close : Closes, ticker : TickerCells]
    ELSE [date : PriceDates, close : Closes]

SentimentRows(cols) ==
    IF "stock" \in Range(cols)
    THEN [date : SentimentDates, stock : TickerCells, avg_polarity : Polarities]
    ELSE [date : SentimentDates, avg_polarity : Polarities]

NoCall == [call |-> "none"]

\* No function was called yet on the tables the caller holds, which it made
\* itself or got from a loader.
Idle == result.call \in {"none", "load_news_data", "load_stock_data"}

\* Any price table and any sentiment table of at most MaxRows rows together.
Init ==
    /\ \E pc \in PriceSchemas, sc \in SentimentSchemas :
       \E p \in 0..MaxPriceRows :
       \E q \in 0..MaxSentRows :
          /\ p + q <= MaxRows
          /\ price_df \in {Frame(pc, rows) : rows \in [1..p -> PriceRows(pc)]}
          /\ sentiment_df \in {Frame(sc, rows) : rows \in [1..q -> SentimentRows(sc)]}
    /\ news_df = EmptyFrame
    /\ heap = <<>>
    /\ files = NoFiles
    /\ run = NoRun
    /\ result = NoCall

\* The rank of a ticker cell in the sorted order of the symbols.
TickerRank(cell) == CHOOSE i \in DOMAIN Tickers : Tickers[i] = Val(cell)

\* Tables of the shape the pipeline hands to correlations_by_ticker: price
\* bars concatenated ticker by ticker, each ticker's bars in date order with
\* one bar per trading day 1..MaxTradingDay; daily sentiment with one row per
\* (day, stock), ordered by day then stock, its dates midnights.
PipelinePriceRows ==
    [date : {Midnight(d) : d \in 1..MaxTradingDay}, close : Closes, ticker : TickerCells]

PipelineSentimentRows ==
    [date : {Midnight(d) : d \in 1..MaxTradingDay}, stock : TickerCells, avg_polarity : Polarities]

PipelinePriceTables ==
    {Frame(<<"date", "close", "ticker">>, rows) :
        rows \in {r \in SeqsUpTo(PipelinePriceRows, MaxPriceRows) :
                    \A i \in 1..(Len(r) - 1) :
                        \/ TickerRank(r[i].ticker) < TickerRank(r[i + 1].ticker)
                        \/ /\ r[i].ticker = r[i + 1].ticker
                           /\ Val(r[i].date) < Val(r[i + 1].date)}}

PipelineSentimentTables ==
    {Frame(<<"date", "stock", "avg_polarity">>, rows) :
        rows \in {r \in SeqsUpTo(PipelineSentimentRows, MaxSentRows) :
                    \A i \in 1..(Len(r) - 1) :
                        \/ Val(r[i].date) < Val(r[i + 1].date)
                        \/ /\ r[i].date = r[i + 1].date
                           /\ TickerRank(r[i].stock) < TickerRank(r[i + 1].stock)}}

InitPipeline ==
    /\ price_df \in PipelinePriceTables
    /\ sentiment_df \in PipelineSentimentTables
    /\ news_df = EmptyFrame
    /\ heap = <<>>
    /\ files = NoFiles
    /\ run = NoRun
    /\ result = NoCall

CallComputeDailyReturns ==
    /\ result = NoCall
    /\ \E out \in compute_daily_returns(price_df, "close", "ticker") :
          result' = [call |-> "compute_daily_returns", out |-> Ok(out)]
    /\ UNCHANGED <<price_df, sentiment_df, news_df, heap, files, run>>

CallAlign ==
    /\ Idle
    /\ \E k \in ShiftChoices :
       \E out \in align_sentiment_with_returns(sentiment_df, price_df, "close", "ticker", "stock", k) :
          result' = [call |-> "align_sentiment_with_returns", shift |-> k, out |-> out]
    /\ UNCHANGED <<price_df, sentiment_df, news_df, heap, files, run>>

CallCorrelationsByTicker ==
    /\ result = NoCall
    /\ \E k \in ShiftChoices :
       \E out \in correlations_by_ticker(sentiment_df, price_df, <<"avg_polarity", "avg_subjectivity">>,
                                         "close", "ticker", "stock", k) :
          result' = [call |-> "correlations_by_ticker", shift |-> k, out |-> out]
    /\ UNCHANGED <<price_df, sentiment_df, news_df, heap, files, run>>

Next ==
    \/ CallComputeDailyReturns
    \/ CallAlign
    \/ CallCorrelationsByTicker

Spec == Init /\ [][Next]_vars

NextCorr == CallCorrelationsByTicker

SpecCorr == InitPipeline /\ [][NextCorr]_vars

(***************************************************************************)
(* The sentiment helpers on a news table.                                  *)
(***************************************************************************)
Headlines == {Some("good"), Some("bad")}

\* News timestamps are late in the day (23:00) of the days 1..MaxDay, or
\* NaT, or text that is no date.
NewsDates == {Null, Text("n/a")} \cup {Some(d * HoursPerDay + 23) : d \in 1..MaxDay}

NewsSchemas == {<<"headline", "date">>, <<"headline", "date", "stock">>, <<>>}

NewsRows(cols) ==
    IF "stock" \in Range(cols)
    THEN [headline : Headlines, date : NewsDates, stock : TickerCells \cup {Null}]
    ELSE [headline : Headlines, date : NewsDates]

ColumnChoices == {<<"polarity", "subjectivity">>, <<"polarity">>}

\* A news table of at most MaxNewsRows rows: with or without a stock column,
\* or without any column (and then without rows).
InitNews ==
    /\ \E nc \in NewsSchemas :
       \E n \in 0..(IF nc = <<>> THEN 0 ELSE MaxNewsRows) :
          news_df \in {Frame(nc, rows) : rows \in [1..n -> NewsRows(nc)]}
    /\ price_df = EmptyFrame
    /\ sentiment_df = EmptyFrame
    /\ heap = <<>>
    /\ files = NoFiles
    /\ run = NoRun
    /\ result = NoCall

\* news = compute_headline_sentiment(news)
ScoreNews ==
    /\ Idle
    /\ LET out == compute_headline_sentiment(news_df, "headline")
       IN  /\ result' = [call |-> "compute_headline_sentiment", arg |-> news_df, out |-> out]
           /\ news_df' = IF out.err = "" THEN out.val ELSE news_df
    /\ UNCHANGED <<price_df, sentiment_df, heap, files, run>>

\* aggregate_daily_sentiment(news, columns=...), on the table as loaded or
\* after it was scored.
AggregateNews ==
    /\ result.call \in {"none", "compute_headline_sentiment"}
    /\ \E columns \in ColumnChoices :
          result' = [call |-> "aggregate_daily_sentiment", arg |-> news_df, columns |-> columns,
                     out |-> aggregate_daily_sentiment(news_df, "date", "stock", columns)]
    /\ UNCHANGED <<price_df, sentiment_df, news_df, heap, files, run>>

NextSentiment == ScoreNews \/ AggregateNews

SpecSentiment == InitNews /\ [][NextSentiment]_vars

(***************************************************************************)
(* The indicator functions on a price table held by a caller.              *)
(***************************************************************************)
\* A column the table may carry beside date and close: one whose name an
\* indicator function writes, or one that none writes.
ExtraColumns == {"", "ma_2", "macd", "bb_low_2", "volume"}

Windows == {2, 3}

\* A price table of one ticker, in date order, of at most MaxIndicatorRows
\* rows, with or without an extra column of plain numbers.
IndicatorTables ==
    UNION {{Frame(IF x = "" THEN <<"date", "close">> ELSE <<"date", "close", x>>,
                  [i \in 1..n |->
                      IF x = ""
                      THEN [date |-> Midnight(i), close |-> closes[i]]
                      ELSE (x :> Some(RatInt(7))) @@ [date |-> Midnight(i), close |-> closes[i]]])
            : closes \in [1..n -> Closes]}
           : n \in 0..MaxIndicatorRows, x \in ExtraColumns}

InitIndicators ==
    /\ heap \in {<<t>> : t \in IndicatorTables}
    /\ price_df = EmptyFrame
    /\ sentiment_df = EmptyFrame
    /\ news_df = EmptyFrame
    /\ files = NoFiles
    /\ run = NoRun
    /\ result = NoCall

\* The caller passes the table it was given, or the one the last call
\* returned (enriched = add_x(enriched)).
Passable == IF result.call = "none" THEN {1} ELSE {1, result.out}

\* What the caller sees of one call: the function, its window (0 when it has
\* none), the reference passed, the heap before the call and the reference
\* returned.
Called(name, window, df, r) ==
    /\ Len(heap) <= MaxCalls
    /\ heap' = r.heap
    /\ result' = [call |-> name, window |-> window, df |-> df, before |-> heap, out |-> r.ref]
    /\ UNCHANGED <<price_df, sentiment_df, news_df, files, run>>

CallAddMovingAverage ==
    \E df \in Passable, w \in Windows :
        Called("add_moving_average", w, df, add_moving_average(heap, df, w, "close"))

CallAddRsi ==
    \E df \in Passable, w \in Windows :
        Called("add_rsi", w, df, add_rsi(heap, df, w, "close"))

CallAddMacd ==
    \E df \in Passable : Called("add_macd", 0, df, add_macd(heap, df, "close"))

CallAddBollingerBands ==
    \E df \in Passable, w \in Windows, ta \in BOOLEAN :
        Called("add_bollinger_bands", w, df, add_bollinger_bands(heap, df, "close", w, ta))

CallAddVolatility ==
    \E df \in Passable, w \in Windows :
        Called("add_volatility", w, df, add_volatility(heap, df, "close", w))

NextIndicators ==
    \/ CallAddMovingAverage
    \/ CallAddRsi
    \/ CallAddMacd
    \/ CallAddBollingerBands
    \/ CallAddVolatility

SpecIndicators == InitIndicators /\ [][NextIndicators]_vars

(***************************************************************************)
(* The loaders on files with dates that do not parse, and the functions    *)
(* that read the date columns of the tables loaded.                        *)
(***************************************************************************)
\* The date field of a file: two timestamps, the second with a UTC offset
\* (it is midnight of day 2 in UTC), text that is no date, or nothing.
RawDates == {Iso(1, 23, 0), Iso(2, 1, 1), Text("n/a"), Null}

RawStocks == {Some(" aaa"), Some("BBB"), Null}

\* The news files: with the index column a saved table has, without the
\* stock column, without the date column.
RawNewsSchemas ==
    {<<"Unnamed: 0", "headline", "publisher", "date", "stock">>,
     <<"headline", "publisher", "date">>,
     <<"headline", "publisher", "stock">>}

RawHeadlines == {Some("good"), Null}

RawNewsRows(cols) ==
    IF "Unnamed: 0" \in Range(cols)
    THEN {("Unnamed: 0" :> Some(0)) @@ r
          : r \in [headline : RawHeadlines, publisher : {Null}, date : RawDates, stock : RawStocks]}
    ELSE IF "date" \in Range(cols)
    THEN [headline : RawHeadlines, publisher : {Null}, date : RawDates]
    ELSE [headline : RawHeadlines, publisher : {Null}, stock : RawStocks]

RawNewsFiles ==
    UNION {{Frame(cols, rows) : rows \in SeqsUpTo(RawNewsRows(cols), MaxRawRows)}
           : cols \in RawNewsSchemas}

\* A price file whose date column is headed date or Date; one without the
\* volume column.
RawPriceFiles ==
    UNION {{Frame(<<h, "open", "high", "low", "close", "volume">>,
                  [i \in DOMAIN rows |->
                      (h :> rows[i].date) @@
                      [open |-> rows[i].close, high |-> rows[i].close, low |-> rows[i].close,
                       close |-> rows[i].close, volume |-> Some(100)]])
            : rows \in SeqsUpTo([date : RawDates \ {Iso(2, 1, 1)}, close : Closes], MaxRawRows)}
           : h \in {"date", "Date"}}
    \cup {Frame(<<"date", "close">>, <<>>)}

\* A sentiment table a caller made: its dates are timestamps, dates, text
\* that is no date, or missing.
DatedSentiment ==
    {Frame(<<"date", "avg_polarity">>, rows)
     : rows \in SeqsUpTo([date : {Some(47), DateObj(1), Text("n/a"), Null},
                          avg_polarity : {Some(RatInt(1))}], 1)}

\* The tickers given: none, one in lower case, two, one with a blank.
TickerFilters == {{}, {"aaa"}, {"AAA", "BBB"}, {" aaa"}}

\* A bound of the date filter: None, or midnight of day 2.
BoundChoices == {Null, Midnight(2)}

\* Either a news file, or a price file and a sentiment table.
InitDates ==
    /\ \/ /\ files \in [news : RawNewsFiles, prices : {<<>>}]
          /\ sentiment_df = EmptyFrame
       \/ /\ files \in [news : {EmptyFrame},
                        prices : {<<[stem |-> "aaa", table |-> t]>> : t \in RawPriceFiles}]
          /\ sentiment_df \in DatedSentiment
    /\ price_df = EmptyFrame
    /\ news_df = EmptyFrame
    /\ heap = <<>>
    /\ run = NoRun
    /\ result = NoCall

\* news = load_news_data(path, tickers, start, end)
CallLoadNewsData ==
    /\ result = NoCall
    /\ files.news.cols # <<>>
    /\ \E tickers \in TickerFilters, start \in BoundChoices, end \in BoundChoices :
          LET out == load_news_data(files.news, tickers, start, end)
          IN  /\ result' = [call |-> "load_news_data", csv |-> files.news, tickers |-> tickers,
                            start |-> start, end |-> end, out |-> out]
              /\ news_df' = IF out.err = "" THEN out.val ELSE news_df
    /\ UNCHANGED <<price_df, sentiment_df, heap, files, run>>

\* prices = load_stock_data(path)
CallLoadStockData ==
    /\ result = NoCall
    /\ files.prices # <<>>
    /\ \E out \in load_stock_data(files.prices[1].table) :
          /\ result' = [call |-> "load_stock_data", csv |-> files.prices[1].table, out |-> out]
          /\ price_df' = IF out.err = "" THEN out.val ELSE price_df
    /\ UNCHANGED <<sentiment_df, news_df, heap, files, run>>

NextDates ==
    \/ CallLoadNewsData
    \/ CallLoadStockData
    \/ ScoreNews
    \/ AggregateNews
    \/ CallAlign

SpecDates == InitDates /\ [][NextDates]_vars

(***************************************************************************)
(* A run of main on a news file and a directory of price files.            *)
(***************************************************************************)
\* The command lines of the model: the defaults, with the ta library
\* installed and PyNance not; and a single price file with a cap on the
\* news rows and no shift, with PyNance installed and ta not.
Configs ==
    {[args |-> [prices |-> 0, single_ticker_label |-> "SAMPLE", tickers |-> {"AAA", "BBB"},
                max_news_rows |-> 0, disable_pynance |-> FALSE, sentiment_shift_days |-> 1],
      env  |-> [ta |-> TRUE, pynance |-> FALSE]],
     [args |-> [prices |-> 1, single_ticker_label |-> "sample", tickers |-> {"AAA", "BBB"},
                max_news_rows |-> 1, disable_pynance |-> FALSE, sentiment_shift_days |-> 0],
      env  |-> [ta |-> FALSE, pynance |-> TRUE]]}

\* The news file: at most MaxMainNewsRows rows, a date that parses or one
\* that does not, good news of AAA and bad news of BBB; or a file without
\* rows that lacks the url column.
MainNewsFiles ==
    {Frame(<<"headline", "publisher", "date", "stock">>, <<>>)} \cup
    {Frame(<<"headline", "url", "publisher", "date", "stock">>, rows)
     : rows \in SeqsUpTo({r \in [headline : Headlines, url : {Some("u")}, publisher : {Null},
                                 date : {Iso(1, 23, 0), Text("n/a")}, stock : TickerCells] :
                             r.headline = Some("good") <=> r.stock = Some("AAA")},
                         MaxMainNewsRows)}

\* A price file of at most n rows, in any order, its header in lower case
\* or capitalised.
PriceFiles(n, capitalised) ==
    IF capitalised
    THEN {Frame(<<"Date", "Open", "High", "Low", "Close", "Volume">>,
                [i \in DOMAIN rows |->
                    [Date |-> rows[i].date, Open |-> rows[i].close, High |-> rows[i].close,
                     Low |-> rows[i].close, Close |-> rows[i].close, Volume |-> Some(100)]])
          : rows \in SeqsUpTo([date : {Iso(d, 0, 0) : d \in 1..MaxDay}, close : Closes], n)}
    ELSE {Frame(<<"date", "open", "high", "low", "close", "volume">>,
                [i \in DOMAIN rows |->
                    [date |-> rows[i].date, open |-> rows[i].close, high |-> rows[i].close,
                     low |-> rows[i].close, close |-> rows[i].close, volume |-> Some(100)]])
          : rows \in SeqsUpTo([date : {Iso(d, 0, 0) : d \in 1..MaxDay}, close : Closes], n)}

\* The price directory: the file of AAA, alone or with the file of BBB.
MainPriceDirs ==
    {<<[stem |-> "aaa", table |-> a]>> : a \in PriceFiles(MaxMainPriceRows, FALSE)} \cup
    {<<[stem |-> "aaa", table |-> a], [stem |-> "bbb", table |-> b]>>
     : a \in PriceFiles(MaxMainPriceRows, FALSE), b \in PriceFiles(MaxSecondFileRows, TRUE)}

\* main's locals before its first statement; done lists the stages
\* completed, in the order they completed.
InitMain ==
    /\ files \in [news : MainNewsFiles, prices : MainPriceDirs]
    /\ \E c \in Configs :
          run = [pc |-> "load_news", args |-> c.args, env |-> c.env, err |-> "", done |-> <<>>,
                 news_df |-> EmptyFrame, prices_df |-> EmptyFrame, tickers |-> {},
                 sentiment_daily |-> EmptyFrame, aggregated_metrics |-> <<>>,
                 indicator_df |-> EmptyFrame, correlation_df |-> EmptyFrame,
                 overall_corr |-> Null, summary |-> Null]
    /\ price_df = EmptyFrame
    /\ sentiment_df = EmptyFrame
    /\ news_df = EmptyFrame
    /\ heap = <<>>
    /\ result = NoCall

\* The order of main's stages: the stage after each.
Stages == <<"load_news", "load_prices", "subsample", "score", "vader", "aggregate", "indicators", "correlate", "report">>

\* Mutant of StageAfter: the price indicators are computed before the
\* aggregation.
StageAfterEnrichFirst(stage) ==
    LET order == <<"load_news", "load_prices", "subsample", "score", "vader", "indicators", "aggregate", "correlate", "report">>
        k == CHOOSE i \in DOMAIN order : order[i] = stage
    IN  IF k = Len(order) THEN "done" ELSE order[k + 1]

StageAfter(stage) ==
    LET k == CHOOSE i \in DOMAIN Stages : Stages[i] = stage
    IN  IF k = Len(Stages) THEN "done" ELSE Stages[k + 1]

\* main goes on after a stage that completed, or ends with the exception
\* the stage raised.
Completed(stage, locals) ==
    /\ run' = [locals EXCEPT !.pc = StageAfter(stage), !.done = Append(@, stage)]
    /\ UNCHANGED <<price_df, sentiment_df, news_df, heap, files, result>>

Failed(err) ==
    /\ run' = [run EXCEPT !.pc = "raised", !.err = err]
    /\ UNCHANGED <<price_df, sentiment_df, news_df, heap, files, result>>

\* Line 174
MainLoadNews ==
    /\ run.pc = "load_news"
    /\ LET out == load_news_data(files.news, {}, Null, Null)
       IN  IF out.err # "" THEN Failed(out.err)
           ELSE Completed("load_news", [run EXCEPT !.news_df = out.val])

\* Line 175
MainLoadPrices ==
    /\ run.pc = "load_prices"
    /\ \E out \in _load_prices(run.args, files.prices) :
          IF out.err # "" THEN Failed(out.err)
          ELSE Completed("load_prices",
                         [run EXCEPT !.prices_df = out.val.df, !.tickers = out.val.tickers])

\* Lines 177-179
MainSubsample ==
    /\ run.pc = "subsample"
    /\ LET cap == run.args.max_news_rows
       IN  Completed("subsample",
                     IF cap # 0 /\ Len(run.news_df.rows) > cap
                     THEN [run EXCEPT !.news_df = Take(@, Idx(cap))]
                     ELSE run)

\* Line 181
MainScore ==
    /\ run.pc = "score"
    /\ LET out == compute_headline_sentiment(run.news_df, "headline")
       IN  IF out.err # "" THEN Failed(out.err)
           ELSE Completed("score", [run EXCEPT !.news_df = out.val])

\* Line 182
MainVader ==
    /\ run.pc = "vader"
    /\ LET out == compute_vader_sentiment(run.news_df, "headline", "vader")
       IN  IF out.err # "" THEN Failed(out.err)
           ELSE Completed("vader", [run EXCEPT !.news_df = out.val])

\* Lines 183-185
MainAggregate ==
    /\ run.pc = "aggregate"
    /\ LET base_sentiment_cols ==
               SelectSeq(<<"polarity", "subjectivity", "vader_compound">>,
                         LAMBDA col : HasCol(run.news_df, col))
           out == aggregate_daily_sentiment(run.news_df, "date", "stock", base_sentiment_cols)
       IN  IF out.err # "" THEN Failed(out.err)
           ELSE Completed("aggregate",
                          [run EXCEPT !.sentiment_daily = out.val,
                                      !.aggregated_metrics = AvgNames(base_sentiment_cols)])

\* Lines 187-200
MainIndicators ==
    /\ run.pc = "indicators"
    /\ IF ~HasCol(run.prices_df, "ticker") THEN Failed("KeyError")
       ELSE \E enriched_frames \in EnrichedFrames(Groups(run.prices_df, "ticker"),
                                                  ~run.args.disable_pynance, run.env) :
               Completed("indicators",
                         [run EXCEPT !.indicator_df = IndicatorDf(enriched_frames)])

\* Lines 202-211
MainCorrelate ==
    /\ run.pc = "correlate"
    /\ \E out \in correlations_by_ticker(run.sentiment_daily, run.indicator_df,
                                         run.aggregated_metrics, "close", "ticker", "stock",
                                         run.args.sentiment_shift_days) :
          IF out.err # "" THEN Failed(out.err)
          ELSE Completed("correlate",
                         [run EXCEPT !.correlation_df = out.val,
                                     !.overall_corr = OverallCorr(out.val)])

\* Lines 213-247: the summary is built from the news table and the results
\* and printed or saved.
MainReport ==
    /\ run.pc = "report"
    /\ IF ~(ReportColumns \subseteq Range(run.news_df.cols)) THEN Failed("KeyError")
       ELSE Completed("report",
                      [run EXCEPT !.summary =
                          Some([tickers_loaded |-> run.tickers,
                                ticker_correlations |-> _records(run.correlation_df),
                                overall_correlation |-> run.overall_corr])])

NextMain ==
    \/ MainLoadNews
    \/ MainLoadPrices
    \/ MainSubsample
    \/ MainScore
    \/ MainVader
    \/ MainAggregate
    \/ MainIndicators
    \/ MainCorrelate
    \/ MainReport

SpecMain == InitMain /\ [][NextMain]_vars

(***************************************************************************)
(* Properties of align_sentiment_with_returns, checked under Spec.         *)
(***************************************************************************)
AlignOk == result.call = "align_sentiment_with_returns" /\ result.out.err = ""

Aligned == result.out.val

BothHaveTicker == HasCol(price_df, "ticker") /\ HasCol(sentiment_df, "stock")

\* The input rows by their labels.
PriceAt(label) == price_df.rows[label + 1]

SentimentAt(label) == sentiment_df.rows[label + 1]

\* Result row k was made of the price row pl and the sentiment row sl.
Attached(pl, sl) ==
    \E k \in DOMAIN Aligned.rows : Aligned.prov[k] = [left |-> pl, right |-> Some(sl)]

\* The UTC calendar day of a non-null timestamp cell.
DayOf(cell) == Val(cell) \div HoursPerDay

\* C1: when the price table has a ticker column and the sentiment table a
\* stock column, a result row that carries the sentiment of a sentiment row
\* has that row's ticker, which is the ticker of its price row: no sentiment
\* value is attached to a price row of another ticker.
C1_RespectsTickers ==
    (AlignOk /\ BothHaveTicker) =>
        \A k \in DOMAIN Aligned.rows :
            LET row == Aligned.rows[k]
                pv  == Aligned.prov[k]
            IN  /\ row["ticker"] = PriceAt(pv.left)["ticker"]
                /\ IF IsNull(pv.right) THEN IsNull(row["avg_polarity"])
                   ELSE /\ SentimentAt(Val(pv.right))["stock"] = row["ticker"]
                        /\ row["avg_polarity"] = SentimentAt(Val(pv.right))["avg_polarity"]

\* C1 witness: two price rows of one day and of different tickers, the
\* sentiment of that day attached to the one of its ticker and not the other.
C1_Witness ==
    /\ AlignOk /\ BothHaveTicker
    /\ \E a, b \in DOMAIN Aligned.rows :
          /\ ~IsNull(Aligned.rows[a]["date"])
          /\ Aligned.rows[a]["date"] = Aligned.rows[b]["date"]
          /\ Aligned.rows[a]["ticker"] # Aligned.rows[b]["ticker"]
          /\ ~IsNull(Aligned.prov[a].right)
          /\ IsNull(Aligned.prov[b].right)

\* C2: with shift k, a sentiment row of UTC day D is attached to exactly the
\* price rows (of its ticker, when both tables name one) of UTC day D + k;
\* with k = 0 to those of day D.
C2_ShiftedForward ==
    AlignOk =>
        \A i \in DOMAIN price_df.rows, j \in DOMAIN sentiment_df.rows :
            LET pr == price_df.rows[i]
                sr == sentiment_df.rows[j]
            IN  ~IsNull(sr["date"]) =>
                    (Attached(i - 1, j - 1) <=>
                        /\ ~IsNull(pr["date"])
                        /\ DayOf(pr["date"]) = DayOf(sr["date"]) + result.shift
                        /\ BothHaveTicker => pr["ticker"] = sr["stock"])

\* C2 witness: shift 1, a sentiment row of day D attached to a price row of
\* day D + 1 while a price row of day D of the same table carries none.
C2_Witness ==
    /\ AlignOk /\ result.shift = 1
    /\ \E i, i2 \in DOMAIN price_df.rows, j \in DOMAIN sentiment_df.rows :
          /\ ~IsNull(sentiment_df.rows[j]["date"])
          /\ ~IsNull(price_df.rows[i]["date"]) /\ ~IsNull(price_df.rows[i2]["date"])
          /\ DayOf(price_df.rows[i]["date"]) = DayOf(sentiment_df.rows[j]["date"]) + 1
          /\ DayOf(price_df.rows[i2]["date"]) = DayOf(sentiment_df.rows[j]["date"])
          /\ Attached(i - 1, j - 1)
          /\ \A k \in DOMAIN Aligned.rows :
                Aligned.prov[k].left = i2 - 1 => IsNull(Aligned.prov[k].right)

\* The join keys of price row i and sentiment row j are equal, as merge
\* compares them: the shifted calendar days (a missing day equal to a missing
\* day) and, when both tables name one, the tickers.
KeysMatch(i, j) ==
    LET pr == price_df.rows[i]
        sr == sentiment_df.rows[j]
    IN  /\ IF IsNull(pr["date"]) \/ IsNull(sr["date"])
           THEN IsNull(pr["date"]) /\ IsNull(sr["date"])
           ELSE DayOf(pr["date"]) = DayOf(sr["date"]) + result.shift
        /\ BothHaveTicker => pr["ticker"] = sr["stock"]

\* The columns the sentiment table contributes to the result.
SentimentValueCols == Range(sentiment_df.cols) \ {"date", "stock"}

\* C3 as stated (an outer join): every price row and every sentiment row
\* appears in the result.
C3_OuterJoin ==
    AlignOk =>
        /\ \A i \in DOMAIN price_df.rows :
              \E k \in DOMAIN Aligned.rows : Aligned.prov[k].left = i - 1
        /\ \A j \in DOMAIN sentiment_df.rows :
              \E k \in DOMAIN Aligned.rows : Aligned.prov[k].right = Some(j - 1)

\* C3 amended (a left join): every result row is made of a price row; a
\* price row that matches no sentiment row appears exactly once, with the
\* sentiment columns null; a sentiment row appears only with a price row
\* whose keys match, so one that matches no price row does not appear.
C3_LeftJoin ==
    AlignOk =>
        /\ \A k \in DOMAIN Aligned.rows :
              /\ Aligned.prov[k].left \in 0..(Len(price_df.rows) - 1)
              /\ ~IsNull(Aligned.prov[k].right) =>
                    /\ Val(Aligned.prov[k].right) \in 0..(Len(sentiment_df.rows) - 1)
                    /\ KeysMatch(Aligned.prov[k].left + 1, Val(Aligned.prov[k].right) + 1)
        /\ \A i \in DOMAIN price_df.rows :
              (\A j \in DOMAIN sentiment_df.rows : ~KeysMatch(i, j)) =>
                  /\ Cardinality({k \in DOMAIN Aligned.rows : Aligned.prov[k].left = i - 1}) = 1
                  /\ \A k \in DOMAIN Aligned.rows :
                        Aligned.prov[k].left = i - 1 =>
                            /\ IsNull(Aligned.prov[k].right)
                            /\ \A c \in SentimentValueCols : IsNull(Aligned.rows[k][c])
        /\ \A j \in DOMAIN sentiment_df.rows :
              (\A i \in DOMAIN price_df.rows : ~KeysMatch(i, j)) =>
                  \A k \in DOMAIN Aligned.rows : Aligned.prov[k].right # Some(j - 1)

\* C3 witness: a price row and a sentiment row that match nothing; the price
\* row is in the result with null sentiment, the sentiment row is not.
C3_Witness ==
    /\ AlignOk
    /\ \E i \in DOMAIN price_df.rows, j \in DOMAIN sentiment_df.rows :
          /\ \A j2 \in DOMAIN sentiment_df.rows : ~KeysMatch(i, j2)
          /\ \A i2 \in DOMAIN price_df.rows : ~KeysMatch(i2, j)
          /\ \E k \in DOMAIN Aligned.rows :
                Aligned.prov[k] = [left |-> i - 1, right |-> Null]
          /\ \A k \in DOMAIN Aligned.rows : Aligned.prov[k].right # Some(j - 1)

(***************************************************************************)
(* Properties of compute_daily_returns, checked under Spec.                *)
(***************************************************************************)
ReturnsDone == result.call = "compute_daily_returns"

Returns == result.out.val

\* The rows before position k of the same series as row k: of its ticker,
\* or all of them when the table has no ticker column.
SameSeriesBefore(df, k) ==
    {j \in 1..(k - 1) : HasCol(price_df, "ticker") => df.rows[j]["ticker"] = df.rows[k]["ticker"]}

\* C10: the result is the input rows ordered by date (missing dates last);
\* the earliest row of every ticker has a null daily_return, every other row
\* has (price - previous price of its ticker) / previous price of its ticker,
\* and without a ticker column the whole table is one series.
C10_ReturnsPerTicker ==
    ReturnsDone =>
        /\ Len(Returns.rows) = Len(price_df.rows)
        /\ Range(Returns.index) = Range(price_df.index)
        /\ \A k \in DOMAIN Returns.rows :
              \A c \in Range(price_df.cols) : Returns.rows[k][c] = PriceAt(Returns.index[k])[c]
        /\ \A k \in 1..(Len(Returns.rows) - 1) :
              \/ IsNull(Returns.rows[k + 1]["date"])
              \/ /\ ~IsNull(Returns.rows[k]["date"])
                 /\ Val(Returns.rows[k]["date"]) <= Val(Returns.rows[k + 1]["date"])
        /\ \A k \in DOMAIN Returns.rows :
              LET before == SameSeriesBefore(Returns, k)
                  dr == Returns.rows[k]["daily_return"]
              IN  IF before = {} THEN IsNull(dr)
                  ELSE LET j == CHOOSE m \in before : \A o \in before : o <= m
                           prev == Val(Returns.rows[j]["close"])
                           cur  == Val(Returns.rows[k]["close"])
                       IN  /\ ~IsNull(dr)
                           /\ Val(dr).n * prev = (cur - prev) * Val(dr).d

\* C10 witness: a row of another ticker and another price lies between two
\* rows of one ticker, and the later of the two has a non-zero return.
C10_Witness ==
    /\ ReturnsDone
    /\ HasCol(price_df, "ticker")
    /\ \E k \in DOMAIN Returns.rows :
          /\ k >= 3
          /\ Returns.rows[k]["ticker"] = Returns.rows[k - 2]["ticker"]
          /\ Returns.rows[k]["ticker"] # Returns.rows[k - 1]["ticker"]
          /\ Returns.rows[k - 1]["close"] # Returns.rows[k - 2]["close"]
          /\ ~IsNull(Returns.rows[k]["daily_return"])
          /\ Val(Returns.rows[k]["daily_return"]).n # 0

(***************************************************************************)
(* Properties of correlations_by_ticker, checked under SpecCorr.           *)
(***************************************************************************)
CorrOk == result.call = "correlations_by_ticker" /\ result.out.err = ""

\* The positions of the aligned rows of ticker t with both the metric and
\* the return present.
PairRows(t, m) ==
    SelectSeq(Idx(Len(result.out.aligned.rows)),
              LAMBDA i : /\ result.out.aligned.rows[i]["ticker"] = t
                         /\ ~IsNull(result.out.aligned.rows[i][m])
                         /\ ~IsNull(result.out.aligned.rows[i]["daily_return"]))

\* C4: in every row of the result, pair_count is the number of aligned rows
\* of the row's ticker with both the metric and daily_return non-null, and
\* correlation is Pearson's r over exactly those rows.
C4_PairCount ==
    CorrOk =>
        \A k \in DOMAIN result.out.val.rows :
            LET row   == result.out.val.rows[k]
                m     == Val(row["sentiment_metric"])
                pairs == PairRows(row["ticker"], m)
            IN  /\ row["pair_count"] = Some(Len(pairs))
                /\ row["correlation"] =
                      Pearson([i \in DOMAIN pairs |-> Val(result.out.aligned.rows[pairs[i]][m])],
                              [i \in DOMAIN pairs |->
                                  Val(result.out.aligned.rows[pairs[i]]["daily_return"])])

\* C4 witness: a ticker with three aligned rows, the first trading day
\* without a return, counted with two pairs and a correlation that is a
\* number.
C4_Witness ==
    /\ CorrOk
    /\ \E k \in DOMAIN result.out.val.rows :
          LET row == result.out.val.rows[k]
          IN  /\ row["pair_count"] = Some(2)
              /\ ~IsNull(row["correlation"])
              /\ Cardinality({i \in DOMAIN result.out.aligned.rows :
                                result.out.aligned.rows[i]["ticker"] = row["ticker"]}) = 3

(***************************************************************************)
(* Properties of the sentiment helpers, checked under SpecSentiment.       *)
(***************************************************************************)
Scored == result.call = "compute_headline_sentiment"

Aggregated == result.call = "aggregate_daily_sentiment"

\* C5: on an empty table neither sentiment helper raises;
\* compute_headline_sentiment returns an empty table that has the polarity
\* and subjectivity columns, and aggregate_daily_sentiment returns an empty
\* table whose columns are exactly, in order, date, the stock column, then
\* avg_<c> for each requested column c.
C5_EmptyShortCircuit ==
    /\ (Scored /\ IsEmpty(result.arg)) =>
          /\ result.out.err = ""
          /\ Len(result.out.val.rows) = 0
          /\ {"polarity", "subjectivity"} \subseteq Range(result.out.val.cols)
    /\ (Aggregated /\ IsEmpty(result.arg)) =>
          /\ result.out.err = ""
          /\ Len(result.out.val.rows) = 0
          /\ result.columns = <<"polarity", "subjectivity">> =>
                result.out.val.cols = <<"date", "stock", "avg_polarity", "avg_subjectivity">>
          /\ result.columns = <<"polarity">> =>
                result.out.val.cols = <<"date", "stock", "avg_polarity">>

\* C5 witness: a news table with columns but no rows and no stock column was
\* scored, and the scored table, still empty, was aggregated.
C5_Witness ==
    /\ Aggregated
    /\ IsEmpty(result.arg)
    /\ result.arg.cols = <<"headline", "date", "polarity", "subjectivity">>
    /\ result.out.err = ""
    /\ "stock" \in Range(result.out.val.cols)

(***************************************************************************)
(* Properties of the indicator functions, checked under SpecIndicators.    *)
(***************************************************************************)
IndicatorCalled == result.call \in {"add_moving_average", "add_rsi", "add_macd", "add_bollinger_bands", "add_volatility"}

\* The table the caller passed, as it was before the call.
Passed == result.before[result.df]

Returned == heap[result.out]

\* The columns the called function is documented to attach.
OwnColumns ==
    LET w == ToString(result.window)
    IN  CASE result.call = "add_moving_average" -> {"ma_" \o w}
          [] result.call = "add_rsi" -> {"rsi_" \o w}
          [] result.call = "add_macd" -> {"macd", "macd_signal", "macd_hist"}
          [] result.call = "add_bollinger_bands" -> {"bb_high_" \o w, "bb_low_" \o w, "bb_mavg_" \o w}
          [] result.call = "add_volatility" -> {"volatility_" \o w}

SameColumn(c) ==
    /\ c \in Range(Returned.cols)
    /\ \A i \in DOMAIN Passed.rows : Returned.rows[i][c] = Passed.rows[i][c]

\* The rows are the same in the same order, the columns are the pre-existing
\* ones and the function's own, and no table the caller held was changed.
AttachesRows ==
    /\ Len(Returned.rows) = Len(Passed.rows)
    /\ Returned.index = Passed.index
    /\ Range(Returned.cols) = Range(Passed.cols) \cup OwnColumns
    /\ \A k \in DOMAIN result.before : heap[k] = result.before[k]

\* C9 as stated: an indicator function keeps the rows, keeps every
\* pre-existing column with unchanged values, adds its own columns and
\* leaves the caller's table unmodified.
C9_EveryColumnUnchanged ==
    IndicatorCalled => /\ AttachesRows
                       /\ \A c \in Range(Passed.cols) : SameColumn(c)

\* C9: an indicator function keeps the rows in their order, keeps with
\* unchanged values every pre-existing column whose name is not one of its
\* own columns, has its own columns in the result (a pre-existing column of
\* such a name is overwritten) and leaves the caller's table unmodified.
C9_AttachOrOverwrite ==
    IndicatorCalled => /\ AttachesRows
                       /\ \A c \in Range(Passed.cols) \ OwnColumns : SameColumn(c)

\* C9 witness: add_moving_average(window=2) was called on a table of two
\* rows that already had a column ma_2; the returned table has other values
\* there, close is unchanged and the caller's table still has its own.
C9_Witness ==
    /\ result.call = "add_moving_average"
    /\ result.window = 2
    /\ Len(Passed.rows) = 2
    /\ "ma_2" \in Range(Passed.cols)
    /\ Returned.rows[2]["ma_2"] # Passed.rows[2]["ma_2"]
    /\ SameColumn("close")
    /\ heap[result.df] = Passed

(***************************************************************************)
(* Properties of a run of main, checked under SpecMain.                    *)
(***************************************************************************)
Ran(stage) == stage \in Range(run.done)

\* The position of a stage among the completed ones.
Pos(stage) == CHOOSE i \in DOMAIN run.done : run.done[i] = stage

\* a completed, and before b did.
Before(a, b) == Ran(a) /\ Pos(a) < Pos(b)

\* The run ended with an exception raised in the stage given.
RaisedIn(stage) ==
    /\ run.pc = "raised"
    /\ run.done # <<>>
    /\ StageAfter(run.done[Len(run.done)]) = stage

PricesLoadedEmpty == Ran("load_prices") /\ Len(run.prices_df.rows) = 0

\* C6 as stated: when the loaded price table has no rows, the correlation
\* stage raises no error and gives no ticker correlations and an
\* overall_correlation of None, which is what the report shows.
C6_EmptyPricesShortCircuit ==
    PricesLoadedEmpty =>
        /\ ~RaisedIn("correlate")
        /\ Ran("correlate") => /\ _records(run.correlation_df) = <<>>
                               /\ run.overall_corr = Null
        /\ Ran("report") => /\ Val(run.summary).ticker_correlations = <<>>
                            /\ Val(run.summary).overall_correlation = Null

EachOnce == \A i, j \in DOMAIN run.done : run.done[i] = run.done[j] => i = j

\* C8 as stated: each stage runs once; scoring the headlines and computing
\* the price indicators are both finished before aggregation, aggregation
\* before correlation, correlation before the report.
C8_EnrichBeforeAggregate ==
    /\ EachOnce
    /\ Ran("aggregate") => /\ Before("load_news", "aggregate")
                           /\ Before("load_prices", "aggregate")
                           /\ Before("score", "aggregate")
                           /\ Before("indicators", "aggregate")
    /\ Ran("correlate") => Before("aggregate", "correlate")
    /\ Ran("report") => Before("correlate", "report")

\* C8: each stage runs once, in the order load (news, then prices), score
\* the headlines (TextBlob, then VADER), aggregate, compute the price
\* indicators, correlate, report: a stage runs only after every earlier one
\* finished, so the price indicators are computed after the aggregation and
\* before the correlation.
C8_LinearPipeline ==
    /\ EachOnce
    /\ Ran("load_prices") => Before("load_news", "load_prices")
    /\ Ran("score") => Before("load_prices", "score")
    /\ Ran("vader") => Before("score", "vader")
    /\ Ran("aggregate") => Before("vader", "aggregate")
    /\ Ran("indicators") => Before("aggregate", "indicators")
    /\ Ran("correlate") => Before("indicators", "correlate")
    /\ Ran("report") => Before("correlate", "report")

\* C8 witness: a run that went through to the report with a ticker
\* correlation computed, the indicators having come after the aggregation.
C8_Witness ==
    /\ run.pc = "done"
    /\ Ran("report")
    /\ Before("aggregate", "indicators")
    /\ Len(run.correlation_df.rows) > 0
    /\ ~IsNull(run.summary)

(***************************************************************************)
(* Properties of the loaders and of the readers of dates, checked under    *)
(* SpecDates.                                                              *)
(***************************************************************************)
NewsLoaded == result.call = "load_news_data"

StockLoaded == result.call = "load_stock_data"

\* A field that holds no well-formed timestamp: other text, or nothing.
Malformed(cell) == ~(Len(cell) = 4 /\ cell[1] = "iso")

\* A cell of a parsed date column: a UTC timestamp or null.
TimestampOrNull(cell) == Len(cell) = 0 \/ (Len(cell) = 1 /\ Val(cell) \in Int)

DateHeader(csv) == IF HasCol(csv, "date") THEN "date" ELSE "Date"

\* The rows of the file whose date is malformed, and the rows whose stock
\* the tickers given select (a missing stock is none of them).
MalformedRows == {i \in DOMAIN result.csv.rows : Malformed(result.csv.rows[i][DateHeader(result.csv)])}

SelectedRows ==
    {i \in DOMAIN result.csv.rows :
        \/ result.tickers = {}
        \/ ~HasCol(result.csv, "stock")
        \/ /\ ~IsNull(result.csv.rows[i]["stock"])
           /\ UpperStrip(Val(result.csv.rows[i]["stock"])) \in {Upper(t) : t \in result.tickers}}

NullDated(df) == {i \in DOMAIN df.rows : IsNull(df.rows[i]["date"])}

\* The table a loader returned has a date column of timestamps and nulls.
DatesParsed ==
    /\ (NewsLoaded /\ HasCol(result.csv, "date")) =>
          /\ result.out.err = ""
          /\ \A i \in DOMAIN result.out.val.rows : TimestampOrNull(result.out.val.rows[i]["date"])
    /\ (StockLoaded /\ result.out.err = "") =>
          \A i \in DOMAIN result.out.val.rows : TimestampOrNull(result.out.val.rows[i]["date"])

\* load_stock_data raises for a missing column only, and keeps every row
\* with a malformed date, its date null.
StockRowsKept ==
    StockLoaded =>
        /\ result.out.err # "" => \E c \in {"open", "high", "low", "close", "volume"} :
                                     ~HasCol(result.csv, c)
        /\ result.out.err = "" => /\ Len(result.out.val.rows) = Len(result.csv.rows)
                                  /\ Cardinality(NullDated(result.out.val)) = Cardinality(MalformedRows)

\* align_sentiment_with_returns and aggregate_daily_sentiment raise for a
\* missing column only, whatever the date cells hold.
ReadersNeverRaiseOnDates ==
    /\ (/\ result.call = "align_sentiment_with_returns"
        /\ {"date", "close"} \subseteq Range(price_df.cols)
        /\ HasCol(sentiment_df, "date")) => result.out.err = ""
    /\ (/\ Aggregated
        /\ HasCol(result.arg, "date")
        /\ Range(result.columns) \subseteq Range(result.arg.cols)) => result.out.err = ""

\* C7 as stated: the loaders return parsed dates, every malformed date
\* null and its row still present when no start and no end is given, and
\* the readers of dates never raise because of a malformed date.
C7_MalformedRowsAllKept ==
    /\ DatesParsed
    /\ StockRowsKept
    /\ ReadersNeverRaiseOnDates
    /\ (NewsLoaded /\ HasCol(result.csv, "date") /\ IsNull(result.start) /\ IsNull(result.end)) =>
          Cardinality(NullDated(result.out.val)) = Cardinality(MalformedRows)

\* C7: the loaders return parsed dates and every malformed date is null;
\* load_stock_data keeps every row, and load_news_data, when no start and
\* no end is given, keeps the rows with a malformed date that its tickers
\* filter selects (all of them when no tickers are given); the readers of
\* dates never raise because of a malformed date.
C7_MalformedDatesBecomeNull ==
    /\ DatesParsed
    /\ StockRowsKept
    /\ ReadersNeverRaiseOnDates
    /\ (NewsLoaded /\ HasCol(result.csv, "date") /\ IsNull(result.start) /\ IsNull(result.end)) =>
          Cardinality(NullDated(result.out.val)) = Cardinality(MalformedRows \cap SelectedRows)

\* C7 witness: a news file of two rows with text for a date, one of AAA and
\* one of BBB, loaded with tickers aaa and no bounds: the row of AAA is
\* there with a null date, the row of BBB is not.
C7_Witness ==
    /\ NewsLoaded
    /\ result.tickers = {"aaa"}
    /\ IsNull(result.start) /\ IsNull(result.end)
    /\ {"date", "stock"} \subseteq Range(result.csv.cols)
    /\ Len(result.csv.rows) = 2
    /\ \A i \in DOMAIN result.csv.rows : result.csv.rows[i]["date"] = Text("n/a")
    /\ result.csv.rows[1]["stock"] = Some(" aaa")
    /\ result.csv.rows[2]["stock"] = Some("BBB")
    /\ result.out.err = ""
    /\ Len(result.out.val.rows) = 1
    /\ result.out.val.rows[1]["stock"] = Some("AAA")
    /\ IsNull(result.out.val.rows[1]["date"])

(***************************************************************************)
(* More properties of align_sentiment_with_returns, checked under Spec.    *)
(***************************************************************************)
\* Every price row is in the result exactly once.
OneRowPerPriceRow ==
    /\ Len(Aligned.rows) = Len(price_df.rows)
    /\ \A i \in DOMAIN price_df.rows :
          Cardinality({k \in DOMAIN Aligned.rows : Aligned.prov[k].left = i - 1}) = 1

\* The sentiment table is as aggregate_daily_sentiment makes it: every row
\* has a day, and no two rows have the same day and (when there is a stock
\* column) the same stock.
OneRowPerDayAndStock ==
    /\ \A j \in DOMAIN sentiment_df.rows : ~IsNull(sentiment_df.rows[j]["date"])
    /\ \A j1, j2 \in DOMAIN sentiment_df.rows :
          (/\ j1 # j2
           /\ DayOf(sentiment_df.rows[j1]["date"]) = DayOf(sentiment_df.rows[j2]["date"]))
          => /\ HasCol(sentiment_df, "stock")
             /\ sentiment_df.rows[j1]["stock"] # sentiment_df.rows[j2]["stock"]

\* C11 as stated: whatever the price table, a sentiment table with at most
\* one row per (calendar day, ticker) gives exactly one result row per price
\* row.
C11_OneRowPerPriceRow == (AlignOk /\ OneRowPerDayAndStock) => OneRowPerPriceRow

\* No two sentiment rows have the same join key: the same day (two missing
\* days are the same) and, when the ticker is a join key, the same stock.
DistinctJoinKeys ==
    \A j1, j2 \in DOMAIN sentiment_df.rows :
        LET d1 == sentiment_df.rows[j1]["date"]
            d2 == sentiment_df.rows[j2]["date"]
        IN  (/\ j1 # j2
             /\ IF IsNull(d1) \/ IsNull(d2) THEN IsNull(d1) /\ IsNull(d2)
                ELSE DayOf(d1) = DayOf(d2))
            => /\ BothHaveTicker
               /\ sentiment_df.rows[j1]["stock"] # sentiment_df.rows[j2]["stock"]

\* C11: when no two sentiment rows have the same join key - the calendar
\* day, with the ticker when the price table has a ticker column and the
\* sentiment table a stock column - the result has exactly one row per price
\* row: none is dropped, none duplicated.
C11_OneRowPerPriceRowOnKeys == (AlignOk /\ DistinctJoinKeys) => OneRowPerPriceRow

\* C11 witness: two sentiment rows of one day and of different stocks, and a
\* price row with a ticker that one of them is attached to; the result has
\* that one row.
C11_Witness ==
    /\ AlignOk /\ BothHaveTicker /\ DistinctJoinKeys
    /\ Len(sentiment_df.rows) = 2
    /\ ~IsNull(sentiment_df.rows[1]["date"])
    /\ sentiment_df.rows[1]["date"] = sentiment_df.rows[2]["date"]
    /\ Len(price_df.rows) = 1
    /\ Len(Aligned.rows) = 1
    /\ ~IsNull(Aligned.prov[1].right)

\* C12: no result row carries a sentiment row whose date is null, also when
\* the price row's date is null: null dates do not match each other in the
\* join.
C12_NullDateNeverAttached ==
    AlignOk =>
        \A k \in DOMAIN Aligned.rows :
            LET right == Aligned.prov[k].right
            IN  ~IsNull(right) => ~IsNull(SentimentAt(Val(right))["date"])

(***************************************************************************)
(* The value of correlation_between_sentiment_and_returns, read from the    *)
(* rows of correlations_by_ticker (one call per row); checked under        *)
(* SpecCorr.                                                               *)
(***************************************************************************)
\* The coefficient of result row k is a number in [-1, 1].
FiniteCoefficient(k) ==
    LET c == result.out.val.rows[k]["correlation"]
    IN  /\ ~IsNull(c)
        /\ Val(c).sign \in {0 - 1, 0, 1}
        /\ Val(c).sq.n >= 0 /\ Val(c).sq.d > 0 /\ Val(c).sq.n <= Val(c).sq.d

\* The values of column c over the rows of result row k's ticker in which
\* both the row's metric and the return are present.
PairValues(k, c) ==
    LET row   == result.out.val.rows[k]
        pairs == PairRows(row["ticker"], Val(row["sentiment_metric"]))
    IN  [i \in DOMAIN pairs |-> result.out.aligned.rows[pairs[i]][c]]

Constant(cells) == \A i, j \in DOMAIN cells : cells[i] = cells[j]

\* C13 as stated: the call of each result row gave NaN when no row of its
\* group has both values, and a coefficient in [-1, 1] as soon as one row
\* has both.
C13_FiniteWithOnePair ==
    CorrOk =>
        \A k \in DOMAIN result.out.val.rows :
            LET row == result.out.val.rows[k]
                n   == Len(PairValues(k, "daily_return"))
            IN  IF n = 0 THEN IsNull(row["correlation"]) ELSE FiniteCoefficient(k)

\* C13: the call raises nothing; it gives NaN when fewer than two rows of
\* the group have both the sentiment value and the return, or when one of
\* the two columns is constant over those rows, and a coefficient in [-1, 1]
\* in every other case.
C13_FiniteWithTwoVaryingPairs ==
    CorrOk =>
        \A k \in DOMAIN result.out.val.rows :
            LET row == result.out.val.rows[k]
                m   == Val(row["sentiment_metric"])
                n   == Len(PairValues(k, "daily_return"))
            IN  IF \/ n < 2
                   \/ Constant(PairValues(k, m))
                   \/ Constant(PairValues(k, "daily_return"))
                THEN IsNull(row["correlation"])
                ELSE FiniteCoefficient(k)

\* C13 witness: a call over two pairs that vary on both sides gave a
\* coefficient, for a ticker whose first trading day has no return.
C13_Witness ==
    /\ CorrOk
    /\ \E k \in DOMAIN result.out.val.rows :
          /\ Len(PairValues(k, "daily_return")) = 2
          /\ ~Constant(PairValues(k, "avg_polarity"))
          /\ FiniteCoefficient(k)

(***************************************************************************)
(* The rows of correlations_by_ticker, checked under Spec (price tables    *)
(* with and without a ticker column).                                      *)
(***************************************************************************)
CorrCalled == result.call = "correlations_by_ticker"

\* The metrics the calls ask for, and those of them that are columns of the
\* aligned table.
RequestedMetrics == {"avg_polarity", "avg_subjectivity"}

MetricColumns == {m \in RequestedMetrics : HasCol(result.out.aligned, m)}

\* The group labels: the tickers present in the aligned table, or "ALL" for
\* the rows of a price table without ticker column.
GroupLabels ==
    IF HasCol(price_df, "ticker")
    THEN {result.out.aligned.rows[i]["ticker"] : i \in DOMAIN result.out.aligned.rows}
    ELSE IF result.out.aligned.rows = <<>> THEN {} ELSE {Some("ALL")}

\* C14: the call raises nothing for a requested metric that is not a column;
\* the result has exactly one row for each (ticker present in the aligned
\* table, requested metric that is a column) and no other row, the rows of a
\* price table without ticker column forming the one group "ALL".
C14_OneRowPerTickerAndMetric ==
    CorrCalled =>
        /\ result.out.err = ""
        /\ \A t \in GroupLabels : \A m \in MetricColumns :
              Cardinality({k \in DOMAIN result.out.val.rows :
                              /\ result.out.val.rows[k]["ticker"] = t
                              /\ result.out.val.rows[k]["sentiment_metric"] = Some(m)}) = 1
        /\ \A k \in DOMAIN result.out.val.rows :
              /\ result.out.val.rows[k]["ticker"] \in GroupLabels
              /\ Val(result.out.val.rows[k]["sentiment_metric"]) \in MetricColumns

\* C14 witness: price rows of two tickers, a requested metric that is not a
\* column, and a result of two rows.
C14_Witness ==
    /\ CorrOk
    /\ Cardinality(GroupLabels) = 2
    /\ MetricColumns = {"avg_polarity"}
    /\ Len(result.out.val.rows) = 2

(***************************************************************************)
(* The rows of aggregate_daily_sentiment, checked under SpecSentiment.     *)
(***************************************************************************)
\* A call on a table with rows that returned a table.
AggregatedRows == Aggregated /\ ~IsEmpty(result.arg) /\ result.out.err = ""

\* The UTC calendar day of a date cell of the input: null for a missing date
\* and for text that is no date.
NewsDay(cell) == IF Len(cell) = 1 THEN Some(Val(cell) \div HoursPerDay) ELSE Null

\* The (day, stock) pair of input row i; the stock is null when there is no
\* stock column.
PairOf(i) ==
    [day   |-> NewsDay(result.arg.rows[i]["date"]),
     stock |-> IF HasCol(result.arg, "stock") THEN result.arg.rows[i]["stock"] ELSE Null]

\* The pairs occurring in the input: those of the rows that have a day and,
\* when there is a stock column, a stock.
InputPairs ==
    {PairOf(i) : i \in {j \in DOMAIN result.arg.rows :
                          /\ ~IsNull(PairOf(j).day)
                          /\ HasCol(result.arg, "stock") => ~IsNull(PairOf(j).stock)}}

\* The positions of the output rows of pair p.
OutputRowsOf(p) ==
    {k \in DOMAIN result.out.val.rows :
        /\ result.out.val.rows[k]["date"] = DateObj(Val(p.day))
        /\ HasCol(result.arg, "stock") => result.out.val.rows[k]["stock"] = p.stock}

\* The arithmetic mean of column c over the input rows of pair p.
MeanOver(p, c) ==
    LET rows  == SelectSeq(Idx(Len(result.arg.rows)), LAMBDA i : PairOf(i) = p)
        total == RatSum([k \in DOMAIN rows |-> Val(result.arg.rows[rows[k]][c])])
    IN  Some(Rat(total.n, total.d * Len(rows)))

NewsReturned == NewsLoaded /\ result.out.err = ""

\* Row i of the file has a stock that, upper-cased and stripped, is one of
\* the upper-cased tickers.
StockAmongTickers(i) ==
    /\ HasCol(result.csv, "stock")
    /\ ~IsNull(result.csv.rows[i]["stock"])
    /\ UpperStrip(Val(result.csv.rows[i]["stock"])) \in {Upper(t) : t \in result.tickers}

\* Row i of the file has a date, and it is within the bounds given.
WithinBounds(i) ==
    LET date == ToDatetimeUTC(result.csv.rows[i]["date"])
    IN  /\ ~IsNull(result.start) => (~IsNull(date) /\ Val(date) >= Val(result.start))
        /\ ~IsNull(result.end) => (~IsNull(date) /\ Val(date) <= Val(result.end))

\* The table returned holds the rows of the file at the positions kept, in
\* their order, each with its date as a timestamp and its stock normalised,
\* under the labels 0..n-1.
LoadedExactly(kept) ==
    /\ Len(result.out.val.rows) = Len(kept)
    /\ result.out.val.index = [k \in DOMAIN kept |-> k - 1]
    /\ \A k \in DOMAIN kept :
          /\ HasCol(result.csv, "date") =>
                result.out.val.rows[k]["date"] = ToDatetimeUTC(result.csv.rows[kept[k]]["date"])
          /\ HasCol(result.csv, "stock") =>
                result.out.val.rows[k]["stock"] =
                    IF IsNull(result.csv.rows[kept[k]]["stock"]) THEN Some("NAN")
                    ELSE Some(UpperStrip(Val(result.csv.rows[kept[k]]["stock"])))

\* C16 as stated: whenever tickers are given the result holds exactly the
\* rows whose stock is among them and whose date is within the bounds given.
C16_FiltersConjoined ==
    NewsReturned =>
        LoadedExactly(SelectSeq(Idx(Len(result.csv.rows)),
                                LAMBDA i : /\ result.tickers # {} => StockAmongTickers(i)
                                           /\ WithinBounds(i)))

\* C16: the result holds exactly the rows whose upper-cased, stripped stock
\* is in the upper-cased tickers set - when tickers are given and the file
\* has a stock column; without the column the tickers select nothing - and
\* whose date is >= start and <= end for each bound given, a null date being
\* within no bound; the rows are labelled 0..n-1.
C16_FiltersConjoinedOnStockColumn ==
    NewsReturned =>
        LoadedExactly(SelectSeq(Idx(Len(result.csv.rows)),
                                LAMBDA i : /\ (result.tickers # {} /\ HasCol(result.csv, "stock"))
                                              => StockAmongTickers(i)
                                           /\ WithinBounds(i)))

\* C16 witness: a file of two rows of AAA, one dated exactly at the start
\* given and one without a date, loaded with tickers aaa: the result is the
\* first row alone.
C16_Witness ==
    /\ NewsReturned
    /\ result.tickers = {"aaa"}
    /\ result.start = Midnight(2) /\ IsNull(result.end)
    /\ {"date", "stock"} \subseteq Range(result.csv.cols)
    /\ Len(result.csv.rows) = 2
    /\ result.csv.rows[1]["date"] = Iso(2, 1, 1)
    /\ IsNull(result.csv.rows[2]["date"])
    /\ \A i \in DOMAIN result.csv.rows : result.csv.rows[i]["stock"] = Some(" aaa")
    /\ Len(result.out.val.rows) = 1
    /\ result.out.val.rows[1]["date"] = Midnight(2)

====
